---- MODULE Spec2Model ----
(***************************************************************************)
(* A model of the SQL parser / optimizer pipeline of this repository:      *)
(*   - predicate pushdown over Logical Plans   (predicate_pushdown_trial)  *)
(*   - common-subexpression elimination        (subsequence)               *)
(*   - join-closure inference, left-deep order enumeration and the batch   *)
(*     join pipeline                           (join_optimization)         *)
(* Strings the code inspects character by character (predicates, error     *)
(* messages) are sequences of one-character strings.                       *)
(***************************************************************************)
EXTENDS Integers, Sequences, FiniteSets, TLC

VARIABLES
    \* predicate pushdown
    pd_pc,        \* "start" | "done"
    pd_plan,      \* the Logical Plan handed to predicate_pushdown
    pd_result,    \* the plan predicate_pushdown returned
    \* common-subexpression elimination (QueryTreeOptimizer)
    cse_pc,       \* "start" | "identified" | "replace" | "done"
    cse_tree,     \* the query tree handed to optimize_and_cleanup
    cse_exprs,    \* common_exprs, then sorted_exprs
    cse_i,        \* the position of the replacement loop in sorted_exprs
    cse_st,       \* the optimizer: rewritten objects, common_expressions, next_expr_id
    cse_result,   \* what optimize_and_cleanup returned
    \* transitive join closure (QueryOptimizer.add_transitive_edges)
    te_pc,        \* "start" | "while" | "for" | "inner" | "edges" | "done"
    te_input,     \* join_conditions as the caller passed it
    te_conds,     \* join_conditions: a dict, as its items in insertion order
    te_graph,     \* join_graph: table -> set of tables
    te_eq,        \* equivalence_classes: its keys, each key's set object, the set objects
    te_loop,      \* changed, the keys left in this pass, the current key, the other_keys left
    te_classes,   \* the classes the last loop has still to go through
    \* left-deep join orders (QueryOptimizer.generate_valid_join_orders)
    jo_pc,        \* "start" | "for" | "bfs" | "done"
    jo_tables,    \* tables: a list
    jo_graph,     \* join_graph: a dict table -> set of tables
    jo_i,         \* the position of first_table in tables
    jo_queue,     \* the BFS queue of partial orders
    jo_valid,     \* valid_orders, and at "done" the list returned
    \* the batch join pipeline (main: optimize_join_query, generate_best_plan_json)
    bp_pc,        \* "start" | "orders" | "returned" | "done"
    bp_tables,    \* tables, as parse_relational_algebra returned them
    bp_graph,     \* join_graph, as parse_relational_algebra returned it
    bp_plans,     \* what optimize_join_query returned: a dict, as its items
    bp_doc,       \* what generate_best_plan_json did: a document, or an exception
    \* subset-DP join ordering (dp_join_optimizer)
    dp_pc,        \* "start" | "joins" | "done"
    dp_in,        \* table_stats_dict (names, row counts, indexes), predicates, cost_model
    dp_dp,        \* dp: set of table names -> Plan
    dp_todo,      \* the subsets the size loops have still to go through
    dp_result,    \* what dp_join_optimizer returned
    \* cost annotation of a plan (CostCalculator)
    cc_pc,        \* "exprs" | "query" | "total" | "done" | "raised"
    cc_doc,       \* subseq_json: query and common_expressions (a list of id, node), with the table statistics
    cc_i,         \* how many common_expressions entries the loop has been through
    cc_exprs,     \* self.exprs: a list of id, node (empty while the attribute is not set)
    cc_expr_occ,  \* self.expr_occ: expression id -> number of visits
    cc_cost,      \* cost and cardinality of the main query
    cc_result,    \* what calc_subseq_cost returned
    \* naive and optimized join cost (calculate_naive_cost, optimize_join_query)
    jc_pc,        \* "naive" | "parse" | "orders" | "plans" | "done"
    jc_in,        \* original_order, tables, join_conditions, join_graph, stats of the query
    jc_naive,     \* what calculate_naive_cost returned
    jc_plans,     \* best_plans: one plan per selectivity method done, in the order of selectivity_methods
    \* plan merge (add_selects)
    as_pc,        \* "start" | "mapped" | "done"
    as_original,  \* original_json: the pushed-down plan (the copy add_selects works on)
    as_joined,    \* joined_json_inp: the join-reordered plan
    as_mapping,   \* mapping: json.dumps text of a base relation -> its select node or itself
    as_result,    \* what add_selects returned, or the exception
    \* web orchestrator (src/web_interface/app.py)
    app_pc,       \* "ready" | the position of the handler of the request being served | "responded"
    app_user,     \* USER_STUFF, the module-level session state
    app_before,   \* USER_STUFF as it was when the request being served arrived
    app_pushed,   \* the plan of the most recent /optimize/pred_push/ request answered with success
    app_req,      \* the request being served
    app_tmp,      \* temp_file_name of the /parse request being served
    app_files,    \* the temporary .sql files that exist
    app_resp,     \* the last response: a JSON body, or an exception that left the handler
    \* condition codec (format_condition_from_json, parse_condition_to_json)
    cd_pc,        \* "start" | "formatted" | "done"
    cd_condition, \* the RA-JSON condition c
    cd_text,      \* format_condition_from_json(c), a string
    cd_parsed,    \* parse_condition_to_json of that string
    \* web orchestrator served by the threads of the development server
    th_pc,        \* per thread: "ready" | "handle" | "cost" | "responded"
    th_user,      \* USER_STUFF, shared by the threads
    th_req,       \* per thread: the request it serves
    th_before,    \* per thread: USER_STUFF as its handler found it
    th_resp,      \* per thread: its last response
    \* command line of the common-subexpression optimizer (src/subsequence.py main)
    cli_pc,       \* "start" | "parsed" | "read" | "done"
    cli_min_size, \* args.min_size
    cli_tree,     \* query_tree, the JSON read from the input
    cli_out,      \* optimized_tree, the JSON written to the output
    \* QueryOptimizer.parse_relational_algebra followed by generate_valid_join_orders
    pr_pc,        \* "start" | "closure" | "orders" | "done"
    pr_plan,      \* json_data, the RA-JSON plan
    pr_tables,    \* the table set extract_info collected
    pr_alias,     \* alias_map
    \* generate_bushy_plans_with_heuristics (src/join_order_diff_estimator.py)
    bu_pc,        \* "start" | "left_deep" | "bushify" | "done"
    bu_query,     \* the JoinQuery
    bu_i,         \* the position of the loop over start tables, then over base_plans
    bu_plans,     \* plans of generate_left_deep_plans, then base_plans
    bu_all        \* all_plans, then the plans returned

pdVars == <<pd_pc, pd_plan, pd_result>>

cseVars == <<cse_pc, cse_tree, cse_exprs, cse_i, cse_st, cse_result>>

teVars == <<te_pc, te_input, te_conds, te_graph, te_eq, te_loop, te_classes>>

joVars == <<jo_pc, jo_tables, jo_graph, jo_i, jo_queue, jo_valid>>

bpVars == <<bp_pc, bp_tables, bp_graph, bp_plans, bp_doc>>

dpVars == <<dp_pc, dp_in, dp_dp, dp_todo, dp_result>>

ccVars == <<cc_pc, cc_doc, cc_i, cc_exprs, cc_expr_occ, cc_cost, cc_result>>

jcVars == <<jc_pc, jc_in, jc_naive, jc_plans>>

asVars == <<as_pc, as_original, as_joined, as_mapping, as_result>>

appVars == <<app_pc, app_user, app_before, app_pushed, app_req, app_tmp, app_files, app_resp>>

cdVars == <<cd_pc, cd_condition, cd_text, cd_parsed>>

thVars == <<th_pc, th_user, th_req, th_before, th_resp>>

cliVars == <<cli_pc, cli_min_size, cli_tree, cli_out>>

prVars == <<pr_pc, pr_plan, pr_tables, pr_alias>>

buVars == <<bu_pc, bu_query, bu_i, bu_plans, bu_all>>

vars == <<pdVars, cseVars, teVars, joVars, bpVars, dpVars, ccVars, jcVars, asVars, appVars, cdVars, thVars, cliVars, prVars, buVars>>

\* the variables of the components a component does not run
notPd == <<cseVars, teVars, joVars, bpVars, dpVars, ccVars, jcVars, asVars, appVars, cdVars, thVars, cliVars, prVars, buVars>>

notCse == <<pdVars, teVars, joVars, bpVars, dpVars, ccVars, jcVars, asVars, appVars, cdVars, thVars, cliVars, prVars, buVars>>

notTe == <<pdVars, cseVars, joVars, bpVars, dpVars, ccVars, jcVars, asVars, appVars, cdVars, thVars, cliVars, prVars, buVars>>

notJo == <<pdVars, cseVars, teVars, bpVars, dpVars, ccVars, jcVars, asVars, appVars, cdVars, thVars, cliVars, prVars, buVars>>

notBp == <<pdVars, cseVars, teVars, dpVars, ccVars, jcVars, asVars, appVars, cdVars, thVars, cliVars, prVars, buVars>>

notDp == <<pdVars, cseVars, teVars, joVars, bpVars, ccVars, jcVars, asVars, appVars, cdVars, thVars, cliVars, prVars, buVars>>

notCc == <<pdVars, cseVars, teVars, joVars, bpVars, dpVars, jcVars, asVars, appVars, cdVars, thVars, cliVars, prVars, buVars>>

notJc == <<pdVars, cseVars, teVars, bpVars, dpVars, ccVars, asVars, appVars, cdVars, thVars, cliVars, prVars, buVars>>

notAs == <<pdVars, cseVars, teVars, joVars, bpVars, dpVars, ccVars, jcVars, appVars, cdVars, thVars, cliVars, prVars, buVars>>

notApp == <<pdVars, cseVars, teVars, joVars, bpVars, dpVars, ccVars, jcVars, asVars, cdVars, thVars, cliVars, prVars, buVars>>

notCd == <<pdVars, cseVars, teVars, joVars, bpVars, dpVars, ccVars, jcVars, asVars, appVars, thVars, cliVars, prVars, buVars>>

notTh == <<pdVars, cseVars, teVars, joVars, bpVars, dpVars, ccVars, jcVars, asVars, appVars, cdVars, cliVars, prVars, buVars>>

notCli == <<pdVars, cseVars, teVars, joVars, bpVars, dpVars, ccVars, jcVars, asVars, appVars, cdVars, thVars, prVars, buVars>>

notPr == <<pdVars, cseVars, bpVars, dpVars, ccVars, jcVars, asVars, appVars, cdVars, thVars, cliVars, buVars>>

notBu == <<pdVars, cseVars, teVars, joVars, bpVars, dpVars, ccVars, jcVars, asVars, appVars, cdVars, thVars, cliVars, prVars>>

None == <<"None">>

\* the component is not part of the run
PdIdle ==
    /\ pd_pc = "idle"
    /\ pd_plan = None
    /\ pd_result = None

CseIdle ==
    /\ cse_pc = "idle"
    /\ cse_tree = None
    /\ cse_exprs = <<>>
    /\ cse_i = 0
    /\ cse_st = None
    /\ cse_result = None

TeIdle ==
    /\ te_pc = "idle"
    /\ te_input = <<>>
    /\ te_conds = <<>>
    /\ te_graph = <<>>
    /\ te_eq = None
    /\ te_loop = None
    /\ te_classes = {}

JoIdle ==
    /\ jo_pc = "idle"
    /\ jo_tables = <<>>
    /\ jo_graph = <<>>
    /\ jo_i = 0
    /\ jo_queue = <<>>
    /\ jo_valid = <<>>

BpIdle ==
    /\ bp_pc = "idle"
    /\ bp_tables = <<>>
    /\ bp_graph = <<>>
    /\ bp_plans = None
    /\ bp_doc = None

DpIdle ==
    /\ dp_pc = "idle"
    /\ dp_in = None
    /\ dp_dp = <<>>
    /\ dp_todo = <<>>
    /\ dp_result = None

CcIdle ==
    /\ cc_pc = "idle"
    /\ cc_doc = None
    /\ cc_i = 0
    /\ cc_exprs = <<>>
    /\ cc_expr_occ = <<>>
    /\ cc_cost = None
    /\ cc_result = None

JcIdle ==
    /\ jc_pc = "idle"
    /\ jc_in = None
    /\ jc_naive = None
    /\ jc_plans = <<>>

AsIdle ==
    /\ as_pc = "idle"
    /\ as_original = None
    /\ as_joined = None
    /\ as_mapping = <<>>
    /\ as_result = None

AppIdle ==
    /\ app_pc = "idle"
    /\ app_user = <<>>
    /\ app_before = None
    /\ app_pushed = None
    /\ app_req = None
    /\ app_tmp = None
    /\ app_files = {}
    /\ app_resp = None

CdIdle ==
    /\ cd_pc = "idle"
    /\ cd_condition = None
    /\ cd_text = <<>>
    /\ cd_parsed = None

ThIdle ==
    /\ th_pc = <<>>
    /\ th_user = <<>>
    /\ th_req = <<>>
    /\ th_before = <<>>
    /\ th_resp = <<>>

CliIdle ==
    /\ cli_pc = "idle"
    /\ cli_min_size = 0
    /\ cli_tree = None
    /\ cli_out = None

PrIdle ==
    /\ pr_pc = "idle"
    /\ pr_plan = None
    /\ pr_tables = {}
    /\ pr_alias = <<>>

BuIdle ==
    /\ bu_pc = "idle"
    /\ bu_query = None
    /\ bu_i = 0
    /\ bu_plans = <<>>
    /\ bu_all = <<>>

\* the components a component does not run are not part of the run
IdleNotPd == CseIdle /\ TeIdle /\ JoIdle /\ BpIdle /\ DpIdle /\ CcIdle /\ JcIdle /\ AsIdle /\ AppIdle /\ CdIdle /\ ThIdle /\ CliIdle /\ PrIdle /\ BuIdle

IdleNotCse == PdIdle /\ TeIdle /\ JoIdle /\ BpIdle /\ DpIdle /\ CcIdle /\ JcIdle /\ AsIdle /\ AppIdle /\ CdIdle /\ ThIdle /\ CliIdle /\ PrIdle /\ BuIdle

IdleNotTe == PdIdle /\ CseIdle /\ JoIdle /\ BpIdle /\ DpIdle /\ CcIdle /\ JcIdle /\ AsIdle /\ AppIdle /\ CdIdle /\ ThIdle /\ CliIdle /\ PrIdle /\ BuIdle

IdleNotJo == PdIdle /\ CseIdle /\ TeIdle /\ BpIdle /\ DpIdle /\ CcIdle /\ JcIdle /\ AsIdle /\ AppIdle /\ CdIdle /\ ThIdle /\ CliIdle /\ PrIdle /\ BuIdle

IdleNotBp == PdIdle /\ CseIdle /\ TeIdle /\ DpIdle /\ CcIdle /\ JcIdle /\ AsIdle /\ AppIdle /\ CdIdle /\ ThIdle /\ CliIdle /\ PrIdle /\ BuIdle

IdleNotDp == PdIdle /\ CseIdle /\ TeIdle /\ JoIdle /\ BpIdle /\ CcIdle /\ JcIdle /\ AsIdle /\ AppIdle /\ CdIdle /\ ThIdle /\ CliIdle /\ PrIdle /\ BuIdle

IdleNotCc == PdIdle /\ CseIdle /\ TeIdle /\ JoIdle /\ BpIdle /\ DpIdle /\ JcIdle /\ AsIdle /\ AppIdle /\ CdIdle /\ ThIdle /\ CliIdle /\ PrIdle /\ BuIdle

IdleNotJc == PdIdle /\ CseIdle /\ TeIdle /\ BpIdle /\ DpIdle /\ CcIdle /\ AsIdle /\ AppIdle /\ CdIdle /\ ThIdle /\ CliIdle /\ PrIdle /\ BuIdle

IdleNotAs == PdIdle /\ CseIdle /\ TeIdle /\ JoIdle /\ BpIdle /\ DpIdle /\ CcIdle /\ JcIdle /\ AppIdle /\ CdIdle /\ ThIdle /\ CliIdle /\ PrIdle /\ BuIdle

IdleNotApp == PdIdle /\ CseIdle /\ TeIdle /\ JoIdle /\ BpIdle /\ DpIdle /\ CcIdle /\ JcIdle /\ AsIdle /\ CdIdle /\ ThIdle /\ CliIdle /\ PrIdle /\ BuIdle

IdleNotCd == PdIdle /\ CseIdle /\ TeIdle /\ JoIdle /\ BpIdle /\ DpIdle /\ CcIdle /\ JcIdle /\ AsIdle /\ AppIdle /\ ThIdle /\ CliIdle /\ PrIdle /\ BuIdle

IdleNotTh == PdIdle /\ CseIdle /\ TeIdle /\ JoIdle /\ BpIdle /\ DpIdle /\ CcIdle /\ JcIdle /\ AsIdle /\ AppIdle /\ CdIdle /\ CliIdle /\ PrIdle /\ BuIdle

IdleNotCli == PdIdle /\ CseIdle /\ TeIdle /\ JoIdle /\ BpIdle /\ DpIdle /\ CcIdle /\ JcIdle /\ AsIdle /\ AppIdle /\ CdIdle /\ ThIdle /\ PrIdle /\ BuIdle

IdleNotPr == PdIdle /\ CseIdle /\ BpIdle /\ DpIdle /\ CcIdle /\ JcIdle /\ AsIdle /\ AppIdle /\ CdIdle /\ ThIdle /\ CliIdle /\ BuIdle

IdleNotBu == PdIdle /\ CseIdle /\ TeIdle /\ JoIdle /\ BpIdle /\ DpIdle /\ CcIdle /\ JcIdle /\ AsIdle /\ AppIdle /\ CdIdle /\ ThIdle /\ CliIdle /\ PrIdle

(***************************************************************************)
(* Character-level string helpers (Python str methods used by the code).   *)
(***************************************************************************)

\* sub in s
StrContains(s, sub) ==
    \E i \in 1..(Len(s) - Len(sub) + 1) : SubSeq(s, i, i + Len(sub) - 1) = sub

\* s[lo:hi] with 0-based, end-exclusive Python indices (0 <= lo)
Slice(s, lo, hi) == SubSeq(s, lo + 1, IF hi > Len(s) THEN Len(s) ELSE hi)

\* s.strip()
RECURSIVE LStrip(_)
LStrip(s) == IF s # <<>> /\ Head(s) = " " THEN LStrip(Tail(s)) ELSE s

RECURSIVE RStrip(_)
RStrip(s) == IF s # <<>> /\ s[Len(s)] = " " THEN RStrip(SubSeq(s, 1, Len(s) - 1)) ELSE s

Strip(s) == RStrip(LStrip(s))

\* s.split(): the maximal runs of non-blank characters, in order
RECURSIVE SplitFrom(_, _, _, _)
SplitFrom(s, i, cur, acc) ==
    IF i > Len(s) THEN (IF cur = <<>> THEN acc ELSE Append(acc, cur))
    ELSE IF s[i] = " "
         THEN SplitFrom(s, i + 1, <<>>, IF cur = <<>> THEN acc ELSE Append(acc, cur))
         ELSE SplitFrom(s, i + 1, Append(cur, s[i]), acc)

StrSplit(s) == SplitFrom(s, 1, <<>>, <<>>)

\* part.split(sep)[0]: the text before the first sep
RECURSIVE BeforeFirst(_, _)
BeforeFirst(s, sep) ==
    IF s = <<>> \/ Head(s) = sep THEN <<>>
    ELSE <<Head(s)>> \o BeforeFirst(Tail(s), sep)

\* the elements of a sequence
Range(s) == { s[i] : i \in DOMAIN s }

\* concatenation of a sequence of sequences
RECURSIVE Flatten(_)
Flatten(ss) == IF ss = <<>> THEN <<>> ELSE Head(ss) \o Flatten(Tail(ss))

(***************************************************************************)
(* Logical Plan nodes (class LogicalPlanNode).                             *)
(***************************************************************************)

LogicalPlanNode(node_type, children, predicate, table, alias, columns) ==
    [node_type |-> node_type, children |-> children, predicate |-> predicate,
     table |-> table, alias |-> alias, columns |-> columns]

SCAN(t, a)       == LogicalPlanNode("SCAN", <<>>, None, t, a, None)
FILTER(p, c)     == LogicalPlanNode("FILTER", <<c>>, p, None, None, None)
JOIN(l, r, p)    == LogicalPlanNode("JOIN", <<l, r>>, p, None, None, None)
PROJECT(cols, c) == LogicalPlanNode("PROJECT", <<c>>, None, None, None, cols)
SUBQUERY(a, c)   == LogicalPlanNode("SUBQUERY", <<c>>, None, None, a, None)

(***************************************************************************)
(* predicate_pushdown and its helpers.                                     *)
(***************************************************************************)

\* extract_table_references that stops at the first reference it finds
extract_first_table_reference(pred_str) ==
    LET blanked == [i \in 1..Len(pred_str) |->
                       IF pred_str[i] \in {"(", ")"} THEN " " ELSE pred_str[i]]
        parts == StrSplit(blanked)
        dotted == { j \in DOMAIN parts : \E k \in DOMAIN parts[j] : parts[j][k] = "." }
    IN  IF dotted = {} THEN {}
        ELSE {BeforeFirst(parts[CHOOSE j \in dotted : \A m \in dotted : j <= m], ".")}

\* extract_table_references: the text before the first '.' of every
\* blank-separated part (parentheses replaced by blanks) that contains a '.'
extract_table_references(pred_str) ==
    LET blanked == [i \in 1..Len(pred_str) |->
                       IF pred_str[i] \in {"(", ")"} THEN " " ELSE pred_str[i]]
        parts == StrSplit(blanked)
    IN  { BeforeFirst(parts[i], ".") :
            i \in { j \in DOMAIN parts : \E k \in DOMAIN parts[j] : parts[j][k] = "." } }

\* find_table_in_subtree
RECURSIVE find_table_in_subtree(_, _)
find_table_in_subtree(node, table_name) ==
    IF node.node_type = "SCAN"
    THEN node.table = table_name \/ node.alias = table_name
    ELSE IF node.node_type = "SUBQUERY" /\ node.alias = table_name THEN TRUE
    ELSE IF node.children = <<>> THEN FALSE
    ELSE \E i \in DOMAIN node.children :
            find_table_in_subtree(node.children[i], table_name)

\* the index of the first child whose subtree holds table_name, 0 when none
FirstChildWith(node, table_name) ==
    LET hits == { i \in DOMAIN node.children :
                    find_table_in_subtree(node.children[i], table_name) }
    IN  IF hits = {} THEN 0 ELSE CHOOSE i \in hits : \A j \in hits : i <= j

\* push_filter_to_scan
RECURSIVE push_filter_to_scan(_, _, _)
push_filter_to_scan(node, table_name, predicate) ==
    IF node.node_type = "SCAN" /\ (node.table = table_name \/ node.alias = table_name)
    THEN FILTER(predicate, node)
    ELSE IF node.node_type = "SUBQUERY" /\ node.alias = table_name
    THEN FILTER(predicate, node)
    ELSE IF node.children = <<>> THEN node
    ELSE LET i == FirstChildWith(node, table_name)
         IN  IF i = 0 THEN node
             ELSE [node EXCEPT !.children[i] =
                        push_filter_to_scan(node.children[i], table_name, predicate)]

\* a dict update d[k] = v on a function
DictSet(d, k, v) == [x \in DOMAIN d \cup {k} |-> IF x = k THEN v ELSE d[x]]

DictGet(d, k, default) == IF k \in DOMAIN d THEN d[k] ELSE default

EmptyDict == [x \in {} |-> None]

\* get_table_aliases: pre-order, later entries overwrite earlier ones
RECURSIVE get_table_aliases(_, _)
RECURSIVE AliasesOfChildren(_, _, _)
AliasesOfChildren(children, i, aliases) ==
    IF i > Len(children) THEN aliases
    ELSE AliasesOfChildren(children, i + 1, get_table_aliases(children[i], aliases))

get_table_aliases(node, aliases) ==
    LET a1 == IF node.node_type = "SCAN" /\ node.alias # None /\ node.alias # <<>>
                 /\ node.alias # node.table
              THEN DictSet(DictSet(aliases, node.alias, node.table), node.table, node.table)
              ELSE aliases
        a2 == IF node.node_type = "SUBQUERY" /\ node.alias # None /\ node.alias # <<>>
              THEN DictSet(a1, node.alias, node.alias)
              ELSE a1
    IN  AliasesOfChildren(node.children, 1, a2)

\* are_parentheses_balanced(s, start, end), Python indices, end inclusive
RECURSIVE BalancedFrom(_, _, _, _)
BalancedFrom(s, i, end, count) ==
    IF i > end THEN count = 0
    ELSE LET c == IF s[i + 1] = "(" THEN count + 1
                  ELSE IF s[i + 1] = ")" THEN count - 1 ELSE count
         IN  IF c < 0 THEN FALSE ELSE BalancedFrom(s, i + 1, end, c)

are_parentheses_balanced(s, start, end) == BalancedFrom(s, start, end, 0)

AndWord == <<" ", "A", "N", "D", " ">>

\* the nesting level after the character at Python index i
ParenLevel(s, i) ==
    Cardinality({ j \in 1..(i + 1) : s[j] = "(" }) - Cardinality({ j \in 1..(i + 1) : s[j] = ")" })

\* the Python indices of the top-level " AND " of s, ascending
and_positions(s) ==
    LET hits == { i \in 0..(Len(s) - 5) :
                    ParenLevel(s, i) = 0 /\ Slice(s, i, i + 5) = AndWord }
        RECURSIVE Asc(_)
        Asc(S) == IF S = {} THEN <<>>
                  ELSE LET m == CHOOSE x \in S : \A y \in S : x <= y
                       IN  <<m>> \o Asc(S \ {m})
    IN  Asc(hits)

\* proper_split: the conditions it appends, in order
RECURSIVE proper_split(_)
proper_split(s) ==
    IF s # <<>> /\ Head(s) = "(" /\ s[Len(s)] = ")"
       /\ are_parentheses_balanced(s, 1, Len(s) - 2)
    THEN proper_split(Strip(Slice(s, 1, Len(s) - 1)))
    ELSE LET pos == and_positions(s)
             n == Len(pos)
             \* the part before each position, then the last part
             part(k) == IF k <= n
                        THEN Strip(Slice(s, IF k = 1 THEN 0 ELSE pos[k - 1] + 5, pos[k]))
                        ELSE Strip(Slice(s, pos[n] + 5, Len(s)))
         IN  IF n > 0
             THEN Flatten([k \in 1..(n + 1) |->
                              IF part(k) # <<>> THEN proper_split(part(k)) ELSE <<>>])
             ELSE <<s>>

split_and_conditions(predicate_str) == proper_split(predicate_str)

\* a fold of push_filter_to_scan over a sequence of <<table, cond>>
RECURSIVE PushAll(_, _)
PushAll(node, pushes) ==
    IF pushes = <<>> THEN node
    ELSE PushAll(push_filter_to_scan(node, Head(pushes)[1], Head(pushes)[2]), Tail(pushes))

\* a fold wrapping node in one FILTER per condition, the first innermost
RECURSIVE WrapAll(_, _)
WrapAll(node, conds) ==
    IF conds = <<>> THEN node ELSE WrapAll(FILTER(Head(conds), node), Tail(conds))

\* the tables of a sequence of <<table, cond>>, in order of first appearance
RECURSIVE FirstAppearance(_, _)
FirstAppearance(pairs, seen) ==
    IF pairs = <<>> THEN <<>>
    ELSE IF Head(pairs)[1] \in seen THEN FirstAppearance(Tail(pairs), seen)
    ELSE <<Head(pairs)[1]>> \o FirstAppearance(Tail(pairs), seen \cup {Head(pairs)[1]})

\* table_conditions.items() unrolled: per table (insertion order) its conditions
TableConditionPushes(conditions, aliases) ==
    LET single == SelectSeq(conditions,
                     LAMBDA c : Cardinality(extract_table_references(c)) = 1)
        pairs == [i \in DOMAIN single |->
                    LET table_name == CHOOSE t \in extract_table_references(single[i]) : TRUE
                    IN  <<DictGet(aliases, table_name, table_name), single[i]>>]
        order == FirstAppearance(pairs, {})
    IN  Flatten([k \in DOMAIN order |->
                    SelectSeq(pairs, LAMBDA p : p[1] = order[k])])

RECURSIVE predicate_pushdown(_)
predicate_pushdown(plan0) ==
    IF plan0.children = <<>> THEN plan0
    ELSE
    LET plan == [plan0 EXCEPT !.children =
                    [i \in DOMAIN plan0.children |-> predicate_pushdown(plan0.children[i])]]
    IN
    IF plan.node_type # "FILTER" THEN plan
    ELSE
    LET child == plan.children[1]
        predicate == plan.predicate
    IN
    IF StrContains(predicate, AndWord)
    THEN
        LET conditions == split_and_conditions(predicate)
            aliases == get_table_aliases(plan, EmptyDict)
        IN
        IF child.node_type = "PROJECT"
        THEN [child EXCEPT !.children[1] =
                 predicate_pushdown(WrapAll(child.children[1], conditions))]
        ELSE
            LET multi_table_conditions ==
                    SelectSeq(conditions,
                        LAMBDA c : Cardinality(extract_table_references(c)) # 1)
                pushed == PushAll(child, TableConditionPushes(conditions, aliases))
            IN  WrapAll(pushed, multi_table_conditions)
    ELSE
        LET referenced_tables == extract_table_references(predicate)
        IN
        IF Cardinality(referenced_tables) = 1
        THEN
            LET table_name == CHOOSE t \in referenced_tables : TRUE
            IN
            IF child.node_type = "PROJECT"
            THEN [child EXCEPT !.children[1] =
                     predicate_pushdown(FILTER(predicate, child.children[1]))]
            ELSE IF child.node_type \in {"JOIN", "FILTER"}
            THEN push_filter_to_scan(child, table_name, predicate)
            ELSE IF child.node_type = "SCAN"
                    /\ (child.table = table_name \/ child.alias = table_name)
            THEN FILTER(predicate, child)
            ELSE IF child.node_type = "SUBQUERY" /\ child.alias = table_name
            THEN FILTER(predicate, child)
            ELSE plan
        ELSE plan

(***************************************************************************)
(* JSON values: a dict is an ordered list of entries (Python keeps the     *)
(* insertion order), a list a sequence, and atoms are strings or integers. *)
(***************************************************************************)

JStr(x)  == [k |-> "s", s |-> x]
JInt(x)  == [k |-> "i", n |-> x]
JList(x) == [k |-> "l", items |-> x]
JDict(x) == [k |-> "d", e |-> x]
Entry(key, val) == [key |-> key, val |-> val]

IsDict(v) == v.k = "d"
IsList(v) == v.k = "l"

HasKey(d, key) == \E i \in DOMAIN d.e : d.e[i].key = key

GetKey(d, key) == d.e[CHOOSE i \in DOMAIN d.e : d.e[i].key = key].val

\* the keys that start with '_' (k.startswith('_'))
UnderscoreKeys == {"_original", "_note"}

\* every key of the trees, in the order sort_keys=True puts them
SortedKeys ==
    <<"_note", "_original", "alias", "attr", "columns", "condition", "id", "input",
      "left", "n", "name", "new_name", "query", "right", "table", "tables", "type", "value">>

KeyRank(key) == CHOOSE i \in DOMAIN SortedKeys : SortedKeys[i] = key

\* the entries of a dict ordered by key
RECURSIVE SortEntries(_)
SortEntries(es) ==
    IF es = <<>> THEN <<>>
    ELSE LET m == CHOOSE i \in DOMAIN es :
                     \A j \in DOMAIN es : KeyRank(es[i].key) <= KeyRank(es[j].key)
         IN  <<es[m]>> \o SortEntries(SubSeq(es, 1, m - 1) \o SubSeq(es, m + 1, Len(es)))

\* json.dumps(v, sort_keys=True), as the value with every dict's keys sorted:
\* two values give the same text exactly when they give the same sorted value
RECURSIVE Dumps(_)
Dumps(v) ==
    IF IsDict(v)
    THEN LET es == SortEntries(v.e)
         IN  JDict([i \in DOMAIN es |-> Entry(es[i].key, Dumps(es[i].val))])
    ELSE IF IsList(v) THEN JList([i \in DOMAIN v.items |-> Dumps(v.items[i])])
    ELSE v

RECURSIVE SumSeq(_)
SumSeq(ns) == IF ns = <<>> THEN 0 ELSE Head(ns) + SumSeq(Tail(ns))

\* the number of decimal digits of a natural number
RECURSIVE Digits(_)
Digits(n) == IF n < 10 THEN 1 ELSE 1 + Digits(n \div 10)

\* len(json.dumps(v)): separators ", " and ": ", strings in double quotes
RECURSIVE DumpsLen(_)
DumpsLen(v) ==
    IF v.k = "s" THEN Len(v.s) + 2
    ELSE IF v.k = "i" THEN Digits(v.n)
    ELSE IF IsList(v)
    THEN 2 + SumSeq([i \in DOMAIN v.items |-> DumpsLen(v.items[i])])
           + (IF Len(v.items) > 1 THEN 2 * (Len(v.items) - 1) ELSE 0)
    ELSE 2 + SumSeq([i \in DOMAIN v.e |-> Len(v.e[i].key) + 4 + DumpsLen(v.e[i].val)])
           + (IF Len(v.e) > 1 THEN 2 * (Len(v.e) - 1) ELSE 0)

(***************************************************************************)
(* QueryTreeOptimizer (common-subexpression elimination).                  *)
(* A node object is named by its path in the tree the optimizer copied;    *)
(* repl records the objects the replacement loop has rewritten in place.   *)
(***************************************************************************)

\* the path element of list index i
IdxName(i) == ToString(i - 1)

\* is_significant_expr
is_significant_expr(node) ==
    IF IsDict(node) /\ HasKey(node, "table") /\ HasKey(node, "attr") THEN FALSE
    ELSE IsDict(node) /\ HasKey(node, "type") /\ Len(node.e) >= 2

\* serialize_for_comparison: the text, and its length
serialize_for_comparison(node) ==
    IF ~IsDict(node) THEN Dumps(node)
    ELSE Dumps(JDict(SelectSeq(node.e, LAMBDA en : en.key \notin UnderscoreKeys)))

SerializedLen(node) ==
    IF ~IsDict(node) THEN DumpsLen(node)
    ELSE DumpsLen(JDict(SelectSeq(node.e, LAMBDA en : en.key \notin UnderscoreKeys)))

\* traverse: the paths of the significant nodes below and at a dict, post-order
RECURSIVE traverse(_, _)
traverse(node, path) ==
    IF ~IsDict(node) THEN <<>>
    ELSE
    Flatten([i \in DOMAIN node.e |->
        LET v == node.e[i].val
            key == node.e[i].key
        IN  IF IsDict(v) THEN traverse(v, path \o <<key>>)
            ELSE IF IsList(v)
            THEN Flatten([j \in DOMAIN v.items |->
                    IF IsDict(v.items[j])
                    THEN traverse(v.items[j], path \o <<key, IdxName(j)>>)
                    ELSE <<>>])
            ELSE <<>>])
    \o (IF is_significant_expr(node) THEN <<path>> ELSE <<>>)

\* the value at a path of a tree
RECURSIVE ValueAt(_, _)
ValueAt(v, path) ==
    IF path = <<>> THEN v
    ELSE IF IsDict(v) THEN ValueAt(GetKey(v, Head(path)), Tail(path))
    ELSE ValueAt(v.items[CHOOSE j \in DOMAIN v.items : IdxName(j) = Head(path)], Tail(path))

\* expr_map as the list of its items: [ser, len, refs], keys in insertion order
RECURSIVE BuildExprMap(_, _, _)
BuildExprMap(tree, paths, acc) ==
    IF paths = <<>> THEN acc
    ELSE LET node == ValueAt(tree, Head(paths))
             ser == serialize_for_comparison(node)
             hit == { i \in DOMAIN acc : acc[i].ser = ser }
         IN  BuildExprMap(tree, Tail(paths),
                 IF hit = {}
                 THEN Append(acc, [ser |-> ser, len |-> SerializedLen(node),
                                   refs |-> <<Head(paths)>>])
                 ELSE LET i == CHOOSE i \in hit : TRUE
                      IN  [acc EXCEPT ![i].refs = Append(@, Head(paths))])

\* the filter of _identify_common_exprs without the size test
IsCommonAnySize(item) == Len(item.refs) > 1

\* the filter of _identify_common_exprs: len(v) > 1 and len(k) > 20
IsCommon(item) == Len(item.refs) > 1 /\ item.len > 20

\* _identify_common_exprs
identify_common_exprs(tree) ==
    SelectSeq(BuildExprMap(tree, traverse(tree, <<>>), <<>>), IsCommon)

\* sorted(common_exprs.items(), key=lambda x: -len(x[0])): stable
RECURSIVE SortByLenDesc(_)
SortByLenDesc(items) ==
    IF items = <<>> THEN <<>>
    ELSE LET m == CHOOSE i \in DOMAIN items :
                     /\ \A j \in DOMAIN items : items[i].len >= items[j].len
                     /\ \A j \in 1..(i - 1) : items[j].len < items[i].len
         IN  <<items[m]>>
             \o SortByLenDesc(SubSeq(items, 1, m - 1) \o SubSeq(items, m + 1, Len(items)))

\* the node an object has become once the loop has rewritten it: its '_'
\* keys, then _original, type and id
ExprRefNode(node, r) ==
    JDict(SelectSeq(node.e, LAMBDA en : en.key \in UnderscoreKeys)
          \o <<Entry("_original", r.original),
               Entry("type", JStr("expr_ref")), Entry("id", JStr(r.id))>>)

\* copy.deepcopy(node) of the object at path, as the loop has left it
RECURSIVE DeepCopy(_, _, _)
DeepCopy(v, path, repl) ==
    IF IsDict(v)
    THEN IF path \in DOMAIN repl THEN ExprRefNode(v, repl[path])
         ELSE JDict([i \in DOMAIN v.e |->
                 LET x == v.e[i].val
                     key == v.e[i].key
                 IN  Entry(key,
                        IF IsDict(x) THEN DeepCopy(x, path \o <<key>>, repl)
                        ELSE IF IsList(x)
                        THEN JList([j \in DOMAIN x.items |->
                                DeepCopy(x.items[j], path \o <<key, IdxName(j)>>, repl)])
                        ELSE x)])
    ELSE v

ObjectAt(tree, path, repl) == DeepCopy(ValueAt(tree, path), path, repl)

\* the definition stored after the node has been rewritten (lines 132 and
\* 141-150 in the other order)
DefinitionAfterRewrite(tree, path, repl, expr_id) ==
    JDict(<<Entry("type", JStr("expr_ref")), Entry("id", JStr(expr_id))>>)

\* self.common_expressions[expr_id] = copy.deepcopy(node_to_extract)
Definition(tree, path, repl, expr_id) == ObjectAt(tree, path, repl)

\* the inner loop: rewrite every reference not yet processed
RECURSIVE RewriteRefs(_, _, _, _)
RewriteRefs(tree, refs, repl, expr_id) ==
    IF refs = <<>> THEN repl
    ELSE IF Head(refs) \in DOMAIN repl
    THEN RewriteRefs(tree, Tail(refs), repl, expr_id)
    ELSE RewriteRefs(tree, Tail(refs),
             DictSet(repl, Head(refs),
                     [id |-> expr_id, original |-> ObjectAt(tree, Head(refs), repl)]),
             expr_id)

\* one iteration of the loop of _replace_common_exprs over sorted_exprs;
\* st = [repl, common_expressions, next_expr_id]
ReplaceOne(tree, st, item) ==
    IF Len(item.refs) < 2 \/ item.refs[1] \in DOMAIN st.repl THEN st
    ELSE LET expr_id == "expr_" \o ToString(st.next_expr_id)
         IN  [repl |-> RewriteRefs(tree, item.refs, st.repl, expr_id),
              common_expressions |->
                  Append(st.common_expressions,
                         Entry(expr_id, Definition(tree, item.refs[1], st.repl, expr_id))),
              next_expr_id |-> st.next_expr_id + 1]

\* cleanup_tree
RECURSIVE cleanup_tree(_)
cleanup_tree(tree) ==
    IF ~IsDict(tree) THEN tree
    ELSE LET kept == SelectSeq(tree.e, LAMBDA en : en.key \notin UnderscoreKeys)
         IN  JDict([i \in DOMAIN kept |->
                 LET v == kept[i].val
                 IN  Entry(kept[i].key,
                        IF IsDict(v) THEN cleanup_tree(v)
                        ELSE IF IsList(v)
                        THEN JList([j \in DOMAIN v.items |->
                                IF IsDict(v.items[j]) THEN cleanup_tree(v.items[j])
                                ELSE v.items[j]])
                        ELSE v)])

\* the state of a new QueryTreeOptimizer
NewOptimizer == [repl |-> EmptyDict, common_expressions |-> <<>>, next_expr_id |-> 0]

\* optimize_and_cleanup's result from the state the loop has ended in
CleanedResult(tree, st) ==
    [common_expressions |->
        [i \in DOMAIN st.common_expressions |->
            Entry(st.common_expressions[i].key, cleanup_tree(st.common_expressions[i].val))],
     query |-> cleanup_tree(ObjectAt(tree, <<>>, st.repl))]

RECURSIVE ReplaceAll(_, _, _)
ReplaceAll(tree, st, items) ==
    IF items = <<>> THEN st
    ELSE ReplaceAll(tree, ReplaceOne(tree, st, Head(items)), Tail(items))

\* optimize_and_cleanup as one function
optimize_and_cleanup(tree) ==
    CleanedResult(tree,
        ReplaceAll(tree, NewOptimizer, SortByLenDesc(identify_common_exprs(tree))))

(***************************************************************************)
(* Inputs of predicate_pushdown: Logical Plans over a few tables, aliases  *)
(* and one subquery, with a FILTER on top.                                 *)
(***************************************************************************)

\* the largest number of conjuncts of a generated predicate
MaxConjuncts == 2

Name(c) == <<c>>

\* "<n>.<col> = <lit>"
Cmp(n, col, lit) == Name(n) \o <<".", col, " ", "=", " ">> \o lit

\* "<m>.k = <n>.k"
ColEq(m, n) == Name(m) \o <<".", "k", " ", "=", " ">> \o Name(n) \o <<".", "k">>

Paren(p) == <<"(">> \o p \o <<")">>

OrWord == <<" ", "O", "R", " ">>

\* comparisons on one name: a scanned table, aliases, a subquery alias, the
\* table inside the subquery, a table no leaf scans, and a float literal
SingleAtoms ==
    { Cmp(n, "k", <<"1">>) : n \in {"a", "b", "c", "x", "y", "s", "t"} }
    \cup { Cmp("a", "j", <<"2">>), Cmp("a", "k", <<"1", ".", "5">>) }

CrossAtoms == { ColEq("a", "b"), ColEq("x", "y") }

ConjAtoms ==
    { Cmp(n, "k", <<"1">>) : n \in {"a", "b", "c", "x", "y", "t"} }
    \cup { Cmp("a", "j", <<"2">>), ColEq("a", "b") }

\* p1 AND p2 AND ... for every sequence of 2..MaxConjuncts distinct atoms
RECURSIVE JoinAnd(_)
JoinAnd(ps) == IF Len(ps) = 1 THEN ps[1] ELSE ps[1] \o AndWord \o JoinAnd(Tail(ps))

AtomSeqs ==
    UNION { { q \in [1..n -> ConjAtoms] : \A i, j \in 1..n : i # j => q[i] # q[j] }
            : n \in 2..MaxConjuncts }

Conjunctions == { JoinAnd(q) : q \in AtomSeqs }

\* the rendering format_condition_from_json gives a conjunction, and a
\* disjunction with a conjunction inside parentheses
OtherPredicates ==
    { Paren(Cmp("a", "k", <<"1">>)) \o AndWord \o Paren(Cmp("b", "k", <<"1">>)),
      Paren(Cmp("a", "k", <<"1">>) \o AndWord \o Cmp("a", "j", <<"2">>))
          \o OrWord \o Cmp("a", "k", <<"1", ".", "5">>),
      Paren(ColEq("a", "b") \o AndWord \o Cmp("a", "j", <<"2">>)) }

Predicates == SingleAtoms \cup CrossAtoms \cup Conjunctions \cup OtherPredicates

Leaves ==
    { SCAN(Name("a"), Name("a")), SCAN(Name("b"), Name("b")),
      SCAN(Name("a"), Name("x")), SCAN(Name("a"), Name("y")),
      SUBQUERY(Name("s"), SCAN(Name("t"), Name("t"))) }

Joins ==
    { JOIN(q[1], q[2], ColEq("a", "b")) : q \in { z \in Leaves \X Leaves : z[1] # z[2] } }

\* what the top FILTER sits on
FilterChildren ==
    Leaves \cup Joins
    \cup { PROJECT(<<"a.k">>, JOIN(SCAN(Name("a"), Name("a")), r, ColEq("a", "b")))
             : r \in Leaves \ {SCAN(Name("a"), Name("a"))} }
    \cup { FILTER(Cmp("b", "k", <<"1">>), JOIN(SCAN(Name("a"), Name("a")), r, ColEq("a", "b")))
             : r \in Leaves \ {SCAN(Name("a"), Name("a"))} }

InputPlans == { FILTER(p, c) : p \in Predicates, c \in FilterChildren }

Init_pd ==
    /\ pd_pc = "start"
    /\ pd_plan \in InputPlans
    /\ pd_result = None
    /\ IdleNotPd

\* result = predicate_pushdown(plan)
Pushdown ==
    /\ pd_pc = "start"
    /\ pd_result' = predicate_pushdown(pd_plan)
    /\ pd_pc' = "done"
    /\ UNCHANGED <<pd_plan, notPd>>

Next_pd == Pushdown

SpecPushdown == Init_pd /\ [][Next_pd]_vars

(***************************************************************************)
(* Inputs of optimize_and_cleanup: RA-JSON join trees over a few relations *)
(* and selections, some of them repeated.                                  *)
(***************************************************************************)

\* the largest number of relations joined in a generated tree
MaxLeaves == 3

Column(t, a) ==
    JDict(<<Entry("type", JStr("column")), Entry("table", JStr(t)), Entry("attr", JStr(a))>>)

IntLit(v) == JDict(<<Entry("type", JStr("int")), Entry("value", JInt(v))>>)

\* a significant node whose text, {"n": 2, "type": 1}, has 19 characters
ShortNode == JDict(<<Entry("type", JInt(1)), Entry("n", JInt(2))>>)

Compare(op, l, r) == JDict(<<Entry("type", JStr(op)), Entry("left", l), Entry("right", r)>>)

BaseRelation(t) ==
    JDict(<<Entry("type", JStr("base_relation")),
            Entry("tables", JList(<<JDict(<<Entry("name", JStr(t))>>)>>))>>)

Select(c, input) ==
    JDict(<<Entry("type", JStr("select")), Entry("condition", c), Entry("input", input)>>)

WithNote(d) == JDict(d.e \o <<Entry("_note", JStr("m"))>>)

JoinNode(l, r, c) ==
    JDict(<<Entry("type", JStr("join")), Entry("left", l), Entry("right", r),
            Entry("condition", c)>>)

CseUnits ==
    { BaseRelation("a"), BaseRelation("b"),
      Select(Compare("EQ", Column("a", "x"), IntLit(1)), BaseRelation("a")),
      WithNote(Select(Compare("EQ", Column("a", "x"), IntLit(1)), BaseRelation("a"))),
      Select(Compare("GT", Column("b", "x"), ShortNode), BaseRelation("b")),
      WithNote(Select(Compare("GT", Column("a", "x"), ShortNode), BaseRelation("a"))) }

JoinConds ==
    << Compare("EQ", Column("a", "k"), Column("b", "k")),
       Compare("EQ", Column("a", "j"), Column("b", "j")) >>

\* left-deep join trees of n relations; the first join uses the first
\* condition, a later one either
RECURSIVE CseTrees(_)
CseTrees(n) ==
    IF n = 1 THEN CseUnits
    ELSE { JoinNode(t, u, c) :
             t \in CseTrees(n - 1), u \in CseUnits,
             c \in IF n = 2 THEN {JoinConds[1]} ELSE Range(JoinConds) }

CseInputs == UNION { CseTrees(n) : n \in 2..MaxLeaves }

Init_cse ==
    /\ cse_pc = "start"
    /\ cse_tree \in CseInputs
    /\ cse_exprs = <<>>
    /\ cse_i = 0
    /\ cse_st = NewOptimizer
    /\ cse_result = None
    /\ IdleNotCse

\* common_exprs = self._identify_common_exprs(tree_copy)
Identify ==
    /\ cse_pc = "start"
    /\ cse_exprs' = identify_common_exprs(cse_tree)
    /\ cse_pc' = "identified"
    /\ UNCHANGED <<cse_tree, cse_i, cse_st, cse_result, notCse>>

\* _replace_common_exprs: sorted_exprs, processed_nodes = set()
SortExprs ==
    /\ cse_pc = "identified"
    /\ cse_exprs' = SortByLenDesc(cse_exprs)
    /\ cse_i' = 1
    /\ cse_pc' = "replace"
    /\ UNCHANGED <<cse_tree, cse_st, cse_result, notCse>>

\* _replace_common_exprs: one iteration of the loop over sorted_exprs
ReplaceStep ==
    /\ cse_pc = "replace"
    /\ cse_i <= Len(cse_exprs)
    /\ cse_st' = ReplaceOne(cse_tree, cse_st, cse_exprs[cse_i])
    /\ cse_i' = cse_i + 1
    /\ UNCHANGED <<cse_pc, cse_tree, cse_exprs, cse_result, notCse>>

\* the loop has ended: optimize builds the result, optimize_and_cleanup
\* cleans the query and the common expressions
Cleanup ==
    /\ cse_pc = "replace"
    /\ cse_i > Len(cse_exprs)
    /\ cse_result' = CleanedResult(cse_tree, cse_st)
    /\ cse_pc' = "done"
    /\ UNCHANGED <<cse_tree, cse_exprs, cse_i, cse_st, notCse>>

Next_cse == Identify \/ SortExprs \/ ReplaceStep \/ Cleanup

SpecCSE == Init_cse /\ [][Next_cse]_vars

(***************************************************************************)
(* Properties of predicate pushdown.                                       *)
(***************************************************************************)

\* every node of a plan
RECURSIVE Subtrees(_)
Subtrees(node) ==
    {node} \cup UNION { Subtrees(node.children[i]) : i \in DOMAIN node.children }

FiltersOf(node) == { n \in Subtrees(node) : n.node_type = "FILTER" }

FilterPredicates(node) == { n.predicate : n \in FiltersOf(node) }

\* the conjuncts of a predicate after top-level AND-splitting
Conjuncts(p) == IF StrContains(p, AndWord) THEN Range(split_and_conditions(p)) ELSE {p}

ConjunctsOfAll(ps) == UNION { Conjuncts(p) : p \in ps }

\* the names a subtree answers to: scanned tables, their aliases, subquery aliases
NamesOf(node) ==
    UNION { IF n.node_type = "SCAN" THEN {n.table, n.alias}
            ELSE IF n.node_type = "SUBQUERY" THEN {n.alias} ELSE {}
            : n \in Subtrees(node) }

\* the table names a predicate references: the text before the '.' of its
\* column references (a number such as 1.5 or a quoted literal is no column)
ReferencedNames(p) ==
    LET blanked == [i \in 1..Len(p) |-> IF p[i] \in {"(", ")"} THEN " " ELSE p[i]]
        parts == StrSplit(blanked)
        NotAName == {"0", "1", "2", "3", "4", "5", "6", "7", "8", "9", "'", "."}
    IN  { BeforeFirst(parts[i], ".") :
            i \in { j \in DOMAIN parts :
                      /\ parts[j][1] \notin NotAName
                      /\ \E k \in DOMAIN parts[j] : parts[j][k] = "." } }

\* the node a chain of FILTERs sits on
RECURSIVE BelowFilters(_)
BelowFilters(node) ==
    IF node.node_type = "FILTER" THEN BelowFilters(node.children[1]) ELSE node

\* C1: predicate_pushdown never discards a predicate: every conjunct of every
\* FILTER of the input plan is the predicate of some FILTER of the output plan.
C1_NoPredicateDiscarded ==
    pd_pc = "done" =>
        \A f \in FiltersOf(pd_plan) :
            \A c \in Conjuncts(f.predicate) : c \in FilterPredicates(pd_result)

\* a FILTER with a top-level conjunction above a JOIN of two SCANs, every
\* conjunct referencing exactly one name, which one of the two SCANs answers to
C2_Pre ==
    /\ pd_plan.node_type = "FILTER"
    /\ pd_plan.children[1].node_type = "JOIN"
    /\ \A i \in 1..2 : pd_plan.children[1].children[i].node_type = "SCAN"
    /\ StrContains(pd_plan.predicate, AndWord)
    /\ Len(split_and_conditions(pd_plan.predicate)) >= 2
    /\ \A c \in Conjuncts(pd_plan.predicate) :
          /\ Cardinality(ReferencedNames(c)) = 1
          /\ ReferencedNames(c) \subseteq NamesOf(pd_plan.children[1])

\* C2: AND-splitting: the conjunction above a JOIN of SCANs is split, the JOIN
\* becomes the root (no FILTER stays above it) and every conjunct is the
\* predicate of a FILTER sitting on the SCAN of the table (or alias) it
\* references; FILTERs stacked on one SCAN all count as sitting on it.
C2_AndSplitReachesOwnScan ==
    (pd_pc = "done" /\ C2_Pre) =>
        /\ pd_result.node_type = "JOIN"
        /\ \A c \in Conjuncts(pd_plan.predicate) :
              \E g \in FiltersOf(pd_result) :
                  /\ g.predicate = c
                  /\ BelowFilters(g).node_type = "SCAN"
                  /\ ReferencedNames(c)
                        \subseteq {BelowFilters(g).table, BelowFilters(g).alias}

\* a FILTER directly above a JOIN whose predicate references columns of the
\* two sides only and compares a column of the left side with a column of
\* the right side (in one of its conjuncts)
C3_Pre ==
    /\ pd_plan.node_type = "FILTER"
    /\ pd_plan.children[1].node_type = "JOIN"
    /\ ReferencedNames(pd_plan.predicate) \subseteq NamesOf(pd_plan.children[1])
    /\ \E c \in Conjuncts(pd_plan.predicate) :
          \E n1, n2 \in ReferencedNames(c) :
              /\ n1 # n2
              /\ n1 \in NamesOf(pd_plan.children[1].children[1])
              /\ n2 \in NamesOf(pd_plan.children[1].children[2])

\* the output keeps the FILTER as root above the same JOIN, and every FILTER
\* inside a join child stems from a FILTER that was inside that child before
C3_LeftInPlace ==
    /\ pd_result.node_type = "FILTER"
    /\ pd_result.predicate = pd_plan.predicate
    /\ pd_result.children[1].node_type = "JOIN"
    /\ pd_result.children[1].predicate = pd_plan.children[1].predicate
    /\ \A i \in 1..2 :
          FilterPredicates(pd_result.children[1].children[i])
              \subseteq ConjunctsOfAll(FilterPredicates(pd_plan.children[1].children[i]))
    /\ (FiltersOf(pd_plan.children[1]) = {} => pd_result = pd_plan)

\* C3 as stated: a FILTER whose predicate references columns of both sides of
\* the JOIN directly below it is left exactly where it is.
C3_Original == (pd_pc = "done" /\ C3_Pre) => C3_LeftInPlace

\* C3 amended: the same, for a predicate that contains no " AND ".
C3_Amended ==
    (pd_pc = "done" /\ C3_Pre /\ ~StrContains(pd_plan.predicate, AndWord))
        => C3_LeftInPlace

C3_Witness ==
    /\ pd_pc = "done"
    /\ C3_Pre
    /\ ~StrContains(pd_plan.predicate, AndWord)
    /\ pd_result = pd_plan
    /\ \A i \in 1..2 : pd_result.children[1].children[i].node_type # "FILTER"

\* C4: subqueries are pushdown boundaries: every FILTER inside a SUBQUERY of
\* the output stems from a FILTER that was inside that SUBQUERY in the input,
\* so no FILTER from above the SUBQUERY is placed below it.
C4_SubqueryBoundary ==
    pd_pc = "done" =>
        \A q \in { n \in Subtrees(pd_plan) : n.node_type = "SUBQUERY" } :
            \A r \in { n \in Subtrees(pd_result) :
                         n.node_type = "SUBQUERY" /\ n.alias = q.alias } :
                FilterPredicates(r.children[1])
                    \subseteq ConjunctsOfAll(FilterPredicates(q.children[1]))

(***************************************************************************)
(* Properties of common-subexpression elimination.                         *)
(***************************************************************************)

\* the paths of all dicts of a value
RECURSIVE DictPaths(_, _)
DictPaths(v, path) ==
    IF IsDict(v)
    THEN {path} \cup UNION { DictPaths(v.e[i].val, path \o <<v.e[i].key>>) : i \in DOMAIN v.e }
    ELSE IF IsList(v)
    THEN UNION { DictPaths(v.items[j], path \o <<IdxName(j)>>) : j \in DOMAIN v.items }
    ELSE {}

TypeIs(node, t) == IsDict(node) /\ HasKey(node, "type") /\ GetKey(node, "type") = JStr(t)

\* the paths of the expr_ref nodes of a value
ExprRefPaths(v) == { p \in DictPaths(v, <<>>) : TypeIs(ValueAt(v, p), "expr_ref") }

\* a value without the fields whose name starts with '_', at every depth
RECURSIVE WithoutMeta(_)
WithoutMeta(v) ==
    IF IsDict(v)
    THEN LET kept == SelectSeq(v.e, LAMBDA en : en.key \notin UnderscoreKeys)
         IN  JDict([i \in DOMAIN kept |-> Entry(kept[i].key, WithoutMeta(kept[i].val))])
    ELSE IF IsList(v) THEN JList([j \in DOMAIN v.items |-> WithoutMeta(v.items[j])])
    ELSE v

HasMeta(v) == \E p \in DictPaths(v, <<>>) : \E k \in UnderscoreKeys : HasKey(ValueAt(v, p), k)

\* the ids of a common_expressions table
EntryIds(ce) == { ce[i].key : i \in DOMAIN ce }

EntryOf(ce, id) == ce[CHOOSE i \in DOMAIN ce : ce[i].key = id].val

\* a value with every expr_ref replaced by the entry it names, at most fuel
\* nested resolutions deep
RECURSIVE Expand(_, _, _)
Expand(v, ce, fuel) ==
    IF IsDict(v)
    THEN IF /\ TypeIs(v, "expr_ref") /\ fuel > 0 /\ HasKey(v, "id")
            /\ \E id \in EntryIds(ce) : GetKey(v, "id") = JStr(id)
         THEN Expand(EntryOf(ce, GetKey(v, "id").s), ce, fuel - 1)
         ELSE JDict([i \in DOMAIN v.e |-> Entry(v.e[i].key, Expand(v.e[i].val, ce, fuel))])
    ELSE IF IsList(v) THEN JList([j \in DOMAIN v.items |-> Expand(v.items[j], ce, fuel)])
    ELSE v

IsProperPrefix(r, q) == Len(r) < Len(q) /\ SubSeq(q, 1, Len(r)) = r

\* the dicts of the input tree that are structurally identical to the one at p
Occurrences(p) ==
    { q \in DictPaths(cse_tree, <<>>) :
        Dumps(ValueAt(cse_tree, q)) = Dumps(ValueAt(cse_tree, p)) }

\* the input has no '_' field and holds a select node of more than 20
\* characters exactly twice, every other repeated node lying inside it
C5_Pre ==
    /\ ~HasMeta(cse_tree)
    /\ \E p \in DictPaths(cse_tree, <<>>) :
          /\ TypeIs(ValueAt(cse_tree, p), "select")
          /\ DumpsLen(ValueAt(cse_tree, p)) > 20
          /\ Cardinality(Occurrences(p)) = 2
          /\ \A q \in DictPaths(cse_tree, <<>>) :
                (Cardinality(Occurrences(q)) > 1 /\ q \notin Occurrences(p))
                    => \E r \in Occurrences(p) : IsProperPrefix(r, q)

\* C5: a tree with exactly two occurrences of an identical select node gives
\* exactly one common_expressions entry and exactly two expr_ref nodes in the
\* query, both with that entry's id; the nodes nested inside the select get
\* no entries of their own
C5_OneEntryTwoRefs ==
    (cse_pc = "done" /\ C5_Pre) =>
        LET ce == cse_result.common_expressions
            refs == ExprRefPaths(cse_result.query)
        IN  /\ Len(ce) = 1
            /\ Cardinality(refs) = 2
            /\ \A p \in refs : GetKey(ValueAt(cse_result.query, p), "id") = JStr(ce[1].key)

\* C6: every expr_ref id of the output names an entry of common_expressions,
\* and the query with every expr_ref replaced (recursively) by its entry
\* equals the input tree without its '_' fields
C6_RoundTrip ==
    cse_pc = "done" =>
        LET ce == cse_result.common_expressions
            q == cse_result.query
            refsIn(v) == { GetKey(ValueAt(v, p), "id") : p \in ExprRefPaths(v) }
        IN  /\ \A v \in {q} \cup { ce[i].val : i \in DOMAIN ce } :
                  \A id \in refsIn(v) : \E e \in EntryIds(ce) : id = JStr(e)
            /\ Dumps(Expand(q, ce, Len(ce) + 1)) = Dumps(WithoutMeta(cse_tree))

\* an input with '_' fields ended with two entries both referenced from the query
C6_Witness ==
    /\ cse_pc = "done"
    /\ HasMeta(cse_tree)
    /\ Len(cse_result.common_expressions) >= 2
    /\ Cardinality({ GetKey(ValueAt(cse_result.query, p), "id") :
                        p \in ExprRefPaths(cse_result.query) }) >= 2

\* a dict with a 'type' field and at least 2 fields that is not a
\* {table, attr} column reference
Significant(node) ==
    /\ IsDict(node)
    /\ HasKey(node, "type")
    /\ Len(node.e) >= 2
    /\ ~(HasKey(node, "table") /\ HasKey(node, "attr"))

\* the significant nodes of the input, and those longer than 20 characters
SignificantPaths ==
    { p \in DictPaths(cse_tree, <<>>) : Significant(ValueAt(cse_tree, p)) }

LongSignificantPaths ==
    { p \in SignificantPaths : SerializedLen(ValueAt(cse_tree, p)) > 20 }

SerializationsAt(paths) == { serialize_for_comparison(ValueAt(cse_tree, p)) : p \in paths }

\* no two long significant nodes have the same serialization
C7_Pre == Cardinality(SerializationsAt(LongSignificantPaths)) = Cardinality(LongSignificantPaths)

\* C7: when no significant node longer than 20 characters occurs more than
\* once, common_expressions is empty and the query is the input tree without
\* its '_' fields
C7_NothingToExtract ==
    (cse_pc = "done" /\ C7_Pre) =>
        /\ cse_result.common_expressions = <<>>
        /\ cse_result.query = WithoutMeta(cse_tree)

\* such a run whose input repeats a short significant node and has '_' fields
C7_Witness ==
    /\ cse_pc = "done"
    /\ C7_Pre
    /\ Cardinality(SerializationsAt(SignificantPaths)) < Cardinality(SignificantPaths)
    /\ HasMeta(cse_tree)
    /\ cse_result.query # cse_tree

(***************************************************************************)
(* QueryOptimizer.add_transitive_edges.  A key is <<table, attr>>.  The    *)
(* values of equivalence_classes are set objects several keys may share:   *)
(* te_eq.cls gives each key's object, te_eq.heap each object's content.    *)
(***************************************************************************)

Tables == {"A", "B", "C", "D"}

Cond(t1, a1, t2, a2) == [t1 |-> t1, a1 |-> a1, t2 |-> t2, a2 |-> a2]

Key1(c) == <<c.t1, c.a1>>

Key2(c) == <<c.t2, c.a2>>

\* (t1, t2) in join_conditions
HasCond(conds, t1, t2) == \E i \in DOMAIN conds : conds[i].t1 = t1 /\ conds[i].t2 = t2

\* lines 447-450 (and 452-455): add other to key's set, or give key a new set
AddEquivalence(eq, key, other) ==
    IF key \in DOMAIN eq.cls
    THEN [eq EXCEPT !.heap[eq.cls[key]] = @ \cup {other}]
    ELSE [keys |-> Append(eq.keys, key),
          cls  |-> eq.cls @@ (key :> Len(eq.heap) + 1),
          heap |-> Append(eq.heap, {key, other})]

\* lines 440-455: the direct equivalences
RECURSIVE InitialClasses(_, _)
InitialClasses(conds, eq) ==
    IF conds = <<>> THEN eq
    ELSE LET c == Head(conds)
         IN  InitialClasses(Tail(conds),
                 AddEquivalence(AddEquivalence(eq, Key1(c), Key2(c)), Key2(c), Key1(c)))

NoClasses == [keys |-> <<>>, cls |-> <<>>, heap |-> <<>>]

\* lines 464-471 for one other_key: the classes after it, and whether it merged
MergeOther(eq, key, eq_class, other_key) ==
    IF other_key \in DOMAIN eq.cls /\ other_key # key
    THEN LET other_class == eq.cls[other_key]
         IN  IF ~(eq.heap[other_class] \subseteq eq.heap[eq_class])
             THEN [eq |-> [keys |-> eq.keys,
                           cls  |-> [k \in DOMAIN eq.cls |->
                                        IF k \in eq.heap[other_class] THEN eq_class
                                        ELSE eq.cls[k]],
                           heap |-> [eq.heap EXCEPT
                                        ![eq_class] = @ \cup eq.heap[other_class]]],
                   merged |-> TRUE]
             ELSE [eq |-> eq, merged |-> FALSE]
    ELSE [eq |-> eq, merged |-> FALSE]

\* lines 478-485 for the pair (i, j) of the list of a class
AddEdge(st, k1, k2) ==
    IF k1[1] # k2[1] /\ ~HasCond(st.conds, k1[1], k2[1]) /\ ~HasCond(st.conds, k2[1], k1[1])
    THEN [conds |-> Append(st.conds, Cond(k1[1], k1[2], k2[1], k2[2])),
          graph |-> [st.graph EXCEPT ![k1[1]] = @ \cup {k2[1]}, ![k2[1]] = @ \cup {k1[1]}]]
    ELSE st

\* lines 476-485: for i in range(len), for j in range(i+1, len)
RECURSIVE AddEdgesFrom(_, _, _, _)
AddEdgesFrom(st, eq_class, i, j) ==
    IF i > Len(eq_class) THEN st
    ELSE IF j > Len(eq_class) THEN AddEdgesFrom(st, eq_class, i + 1, i + 2)
    ELSE AddEdgesFrom(AddEdge(st, eq_class[i], eq_class[j]), eq_class, i, j + 1)

\* list(s) of a set: any order
RECURSIVE ListsOf(_)
ListsOf(S) ==
    IF S = {} THEN {<<>>}
    ELSE UNION { { <<x>> \o l : l \in ListsOf(S \ {x}) } : x \in S }

\* the join graph parse_relational_algebra has built from the conditions
RECURSIVE GraphOf(_)
GraphOf(conds) ==
    IF conds = <<>> THEN [t \in Tables |-> {}]
    ELSE LET c == Head(conds)
             g == GraphOf(Tail(conds))
         IN  [g EXCEPT ![c.t1] = @ \cup {c.t2}, ![c.t2] = @ \cup {c.t1}]

\* the largest number of join conditions of a generated query
MaxConds == 5

ConditionPool ==
    { Cond("C", "y", "D", "x"), Cond("A", "y", "B", "x"), Cond("A", "x", "D", "x"),
      Cond("C", "x", "B", "x"), Cond("C", "x", "A", "x"), Cond("B", "y", "D", "y") }

\* join_conditions of n conditions: distinct table pairs, any insertion order
RECURSIVE CondLists(_)
CondLists(n) ==
    IF n = 0 THEN {<<>>}
    ELSE { Append(l, c) : l \in CondLists(n - 1), c \in ConditionPool }

JoinConditionInputs ==
    { l \in UNION { CondLists(n) : n \in 1..MaxConds } :
        \A i, j \in DOMAIN l : i # j => {l[i].t1, l[i].t2} # {l[j].t1, l[j].t2} }

Init_te ==
    /\ te_pc = "start"
    /\ te_input \in JoinConditionInputs
    /\ te_conds = te_input
    /\ te_graph = GraphOf(te_input)
    /\ te_eq = NoClasses
    /\ te_loop = [changed |-> TRUE, keys |-> <<>>, key |-> None, eq_class |-> 0, others |-> {}]
    /\ te_classes = {}
    /\ IdleNotTe

\* lines 440-458
InitClasses ==
    /\ te_pc = "start"
    /\ te_eq' = InitialClasses(te_conds, NoClasses)
    /\ te_pc' = "while"
    /\ UNCHANGED <<te_input, te_conds, te_graph, te_loop, te_classes, notTe>>

\* while changed: changed = False; for key in list(equivalence_classes.keys())
BeginPass ==
    /\ te_pc = "while"
    /\ te_loop.changed
    /\ te_loop' = [te_loop EXCEPT !.changed = FALSE, !.keys = te_eq.keys]
    /\ te_pc' = "for"
    /\ UNCHANGED <<te_input, te_conds, te_graph, te_eq, te_classes, notTe>>

\* eq_class = equivalence_classes[key]; for other_key in list(eq_class)
NextKey ==
    /\ te_pc = "for"
    /\ te_loop.keys # <<>>
    /\ LET key == Head(te_loop.keys)
       IN  te_loop' = [te_loop EXCEPT !.keys = Tail(@), !.key = key,
                                      !.eq_class = te_eq.cls[key],
                                      !.others = te_eq.heap[te_eq.cls[key]]]
    /\ te_pc' = "inner"
    /\ UNCHANGED <<te_input, te_conds, te_graph, te_eq, te_classes, notTe>>

\* the next other_key of the list, whichever the set's iteration gives
MergeStep ==
    /\ te_pc = "inner"
    /\ \E other_key \in te_loop.others :
          LET r == MergeOther(te_eq, te_loop.key, te_loop.eq_class, other_key)
          IN  /\ te_eq' = r.eq
              /\ te_loop' = [te_loop EXCEPT !.others = @ \ {other_key},
                                            !.changed = @ \/ r.merged]
    /\ UNCHANGED <<te_pc, te_input, te_conds, te_graph, te_classes, notTe>>

\* list(eq_class) is exhausted
EndInner ==
    /\ te_pc = "inner"
    /\ te_loop.others = {}
    /\ te_pc' = "for"
    /\ UNCHANGED <<te_input, te_conds, te_graph, te_eq, te_loop, te_classes, notTe>>

\* the keys are exhausted
EndPass ==
    /\ te_pc = "for"
    /\ te_loop.keys = <<>>
    /\ te_pc' = "while"
    /\ UNCHANGED <<te_input, te_conds, te_graph, te_eq, te_loop, te_classes, notTe>>

\* changed is False: set(map(frozenset, equivalence_classes.values()))
EndMerge ==
    /\ te_pc = "while"
    /\ ~te_loop.changed
    /\ te_classes' = { te_eq.heap[te_eq.cls[k]] : k \in DOMAIN te_eq.cls }
    /\ te_pc' = "edges"
    /\ UNCHANGED <<te_input, te_conds, te_graph, te_eq, te_loop, notTe>>

\* the next class of the set, as a list in whichever order
AddClassEdges ==
    /\ te_pc = "edges"
    /\ \E eq_class_set \in te_classes :
          /\ \E eq_class \in ListsOf(eq_class_set) :
                LET st == AddEdgesFrom([conds |-> te_conds, graph |-> te_graph], eq_class, 1, 2)
                IN  te_conds' = st.conds /\ te_graph' = st.graph
          /\ te_classes' = te_classes \ {eq_class_set}
    /\ UNCHANGED <<te_pc, te_input, te_eq, te_loop, notTe>>

EndEdges ==
    /\ te_pc = "edges"
    /\ te_classes = {}
    /\ te_pc' = "done"
    /\ UNCHANGED <<te_input, te_conds, te_graph, te_eq, te_loop, te_classes, notTe>>

Next_te ==
    \/ InitClasses \/ BeginPass \/ NextKey \/ MergeStep \/ EndInner \/ EndPass
    \/ EndMerge \/ AddClassEdges \/ EndEdges

SpecClosure == Init_te /\ [][Next_te]_vars

(***************************************************************************)
(* Properties of the transitive join closure.                              *)
(***************************************************************************)

InputKeys == { Key1(te_input[i]) : i \in DOMAIN te_input }
                 \cup { Key2(te_input[i]) : i \in DOMAIN te_input }

\* the keys a chain of conditions of the input links to a key of S
RECURSIVE ChainClass(_)
ChainClass(S) ==
    LET more == S \cup { k \in InputKeys :
                          \E i \in DOMAIN te_input :
                              \/ Key1(te_input[i]) \in S /\ Key2(te_input[i]) = k
                              \/ Key2(te_input[i]) \in S /\ Key1(te_input[i]) = k }
    IN  IF more = S THEN S ELSE ChainClass(more)

KeysLinked(k1, k2) == k2 \in ChainClass({k1})

TablesLinked(t1, t2) ==
    \E k1, k2 \in InputKeys : k1[1] = t1 /\ k2[1] = t2 /\ KeysLinked(k1, k2)

\* every two distinct tables with chain-linked keys have a condition in one
\* direction and are adjacent both ways
C8_LinkedTablesJoined ==
    te_pc = "done" =>
        \A t1, t2 \in Tables :
            (t1 # t2 /\ TablesLinked(t1, t2)) =>
                /\ HasCond(te_conds, t1, t2) \/ HasCond(te_conds, t2, t1)
                /\ t2 \in te_graph[t1]
                /\ t1 \in te_graph[t2]

\* two conditions that share the middle key give a condition between the end
\* tables on the end attributes
C8_ChainOfTwo ==
    (te_pc = "done" /\ Len(te_input) = 2) =>
        \A e1 \in {Key1(te_input[1]), Key2(te_input[1])},
           e2 \in {Key1(te_input[2]), Key2(te_input[2])} :
            (e1[1] # e2[1] /\ KeysLinked(e1, e2)
                /\ {e1, e2} \cap {Key1(te_input[1]), Key2(te_input[1])}
                              \cap {Key1(te_input[2]), Key2(te_input[2])} = {}) =>
                \E i \in DOMAIN te_conds :
                    {Key1(te_conds[i]), Key2(te_conds[i])} = {e1, e2}

\* every condition the closure added joins chain-linked keys
C8_OnlyLinkedKeysJoined ==
    te_pc = "done" =>
        \A i \in DOMAIN te_conds :
            i > Len(te_input) => KeysLinked(Key1(te_conds[i]), Key2(te_conds[i]))

\* C8: after add_transitive_edges every two distinct tables whose keys are
\* linked by a chain of conditions have a join condition in one direction and
\* are adjacent in the join graph both ways; A.x = B.y and B.y = C.z add an
\* A-C condition on (x, z); no condition is added between tables linked only
\* through different attributes of a middle table
C8_TransitiveClosure ==
    C8_LinkedTablesJoined /\ C8_ChainOfTwo /\ C8_OnlyLinkedKeysJoined

(***************************************************************************)
(* QueryOptimizer.generate_valid_join_orders.                              *)
(***************************************************************************)

\* the neighbours of the last table of the order only
joinable_from_last(current_order, join_graph) ==
    (IF current_order[Len(current_order)] \in DOMAIN join_graph
     THEN join_graph[current_order[Len(current_order)]] ELSE {})
        \ Range(current_order)

\* lines 516-522: the neighbours of the tables of the order, less the order
joinable_tables(current_order, join_graph) ==
    UNION { join_graph[t] : t \in Range(current_order) \cap DOMAIN join_graph }
        \ Range(current_order)

OrderTables == {"A", "B", "C"}

\* the undirected edges over a set of tables
EdgesOver(S) == { e \in SUBSET S : Cardinality(e) = 2 }

\* join_graph after the edges have been added both ways; has holds the keys
GraphWith(has, edges) ==
    [t \in has |-> { u \in OrderTables : {t, u} \in edges }]

\* tables in any list order, a symmetric join graph over them; a table
\* without an edge may or may not be a key of the dict
Init_jo ==
    /\ jo_pc = "start"
    /\ \E S \in SUBSET OrderTables :
          /\ jo_tables \in ListsOf(S)
          /\ \E edges \in SUBSET EdgesOver(S) :
                \E has \in SUBSET S :
                    /\ UNION edges \subseteq has
                    /\ jo_graph = GraphWith(has, edges)
    /\ jo_i = 0
    /\ jo_queue = <<>>
    /\ jo_valid = <<>>
    /\ IdleNotJo

\* lines 498-499: if len(tables) <= 1: return [tuple(tables)]
ReturnTrivial ==
    /\ jo_pc = "start"
    /\ Len(jo_tables) <= 1
    /\ jo_valid' = <<jo_tables>>
    /\ jo_pc' = "done"
    /\ UNCHANGED <<jo_tables, jo_graph, jo_i, jo_queue, notJo>>

\* line 501: valid_orders = []
BeginOrders ==
    /\ jo_pc = "start"
    /\ Len(jo_tables) > 1
    /\ jo_valid' = <<>>
    /\ jo_i' = 1
    /\ jo_pc' = "for"
    /\ UNCHANGED <<jo_tables, jo_graph, jo_queue, notJo>>

\* lines 504-506: for first_table in tables: queue = deque([(first_table,)])
StartFirst ==
    /\ jo_pc = "for"
    /\ jo_i <= Len(jo_tables)
    /\ jo_queue' = << <<jo_tables[jo_i]>> >>
    /\ jo_pc' = "bfs"
    /\ UNCHANGED <<jo_tables, jo_graph, jo_i, jo_valid, notJo>>

\* an iteration that collects the joinable tables in a list, one entry per
\* edge from the current order, and so extends the order once per edge
PopOrderPerEdge ==
    /\ jo_pc = "bfs"
    /\ jo_queue # <<>>
    /\ LET current_order == Head(jo_queue)
           edges == { e \in Range(current_order) \X joinable_tables(current_order, jo_graph) :
                        e[1] \in DOMAIN jo_graph /\ e[2] \in jo_graph[e[1]] }
       IN  IF Len(current_order) = Len(jo_tables)
           THEN /\ jo_valid' = Append(jo_valid, current_order)
                /\ jo_queue' = Tail(jo_queue)
           ELSE /\ \E next \in ListsOf(edges) :
                      jo_queue' = Tail(jo_queue)
                          \o [n \in DOMAIN next |-> Append(current_order, next[n][2])]
                /\ UNCHANGED jo_valid
    /\ UNCHANGED <<jo_pc, jo_tables, jo_graph, jo_i, notJo>>

\* lines 507-526: one iteration of while queue; the joinable tables are
\* appended in whichever order the set gives them
PopOrder ==
    /\ jo_pc = "bfs"
    /\ jo_queue # <<>>
    /\ LET current_order == Head(jo_queue)
       IN  IF Len(current_order) = Len(jo_tables)
           THEN /\ jo_valid' = Append(jo_valid, current_order)
                /\ jo_queue' = Tail(jo_queue)
           ELSE /\ \E next \in ListsOf(joinable_tables(current_order, jo_graph)) :
                      jo_queue' = Tail(jo_queue)
                          \o [n \in DOMAIN next |-> Append(current_order, next[n])]
                /\ UNCHANGED jo_valid
    /\ UNCHANGED <<jo_pc, jo_tables, jo_graph, jo_i, notJo>>

\* the queue is empty: the next first_table
EndBfs ==
    /\ jo_pc = "bfs"
    /\ jo_queue = <<>>
    /\ jo_i' = jo_i + 1
    /\ jo_pc' = "for"
    /\ UNCHANGED <<jo_tables, jo_graph, jo_queue, jo_valid, notJo>>

\* line 540: return valid_orders
ReturnOrders ==
    /\ jo_pc = "for"
    /\ jo_i > Len(jo_tables)
    /\ jo_pc' = "done"
    /\ UNCHANGED <<jo_tables, jo_graph, jo_i, jo_queue, jo_valid, notJo>>

Next_jo ==
    \/ ReturnTrivial \/ BeginOrders \/ StartFirst \/ PopOrder \/ EndBfs \/ ReturnOrders

SpecOrders == Init_jo /\ [][Next_jo]_vars

(***************************************************************************)
(* Properties of the left-deep order enumeration.                          *)
(***************************************************************************)

Adjacent(t, u) == t \in DOMAIN jo_graph /\ u \in jo_graph[t]

\* every table after the first is adjacent to an earlier one
Connected(order) ==
    \A i \in 2..Len(order) : \E j \in 1..(i - 1) : Adjacent(order[j], order[i])

IsChainABC ==
    /\ Range(jo_tables) = {"A", "B", "C"}
    /\ \A t, u \in OrderTables :
          Adjacent(t, u) <=> {t, u} \in {{"A", "B"}, {"B", "C"}}

\* C9: for at least 2 tables generate_valid_join_orders returns exactly the
\* permutations of the tables in which every table after the first is
\* adjacent to an earlier one; the chain A-B-C gives (A,B,C) and (C,B,A) and
\* never (A,C,B)
C9_ValidLeftDeepOrders ==
    (jo_pc = "done" /\ Len(jo_tables) >= 2) =>
        /\ Range(jo_valid) = { p \in ListsOf(Range(jo_tables)) : Connected(p) }
        /\ IsChainABC =>
              /\ <<"A", "B", "C">> \in Range(jo_valid)
              /\ <<"C", "B", "A">> \in Range(jo_valid)
              /\ <<"A", "C", "B">> \notin Range(jo_valid)

\* the chain A-B-C has been enumerated
C9_Witness ==
    /\ jo_pc = "done"
    /\ IsChainABC
    /\ <<"A", "B", "C">> \in Range(jo_valid)
    /\ Len(jo_valid) = 4

(***************************************************************************)
(* The batch join pipeline: main hands the result of optimize_join_query   *)
(* to generate_best_plan_json.  A dict is the sequence of its items; an    *)
(* error message is a sequence of characters.  The cost of a plan comes    *)
(* from the statistics of the database and is any of PlanCosts.            *)
(***************************************************************************)

\* float('inf')
Infinity == 1000

PlanCosts == {10, 20}

selectivity_methods == <<"fixed", "ndv", "mcv">>

Item(key, val) == [key |-> key, val |-> val]

NoTablesMessage ==
    <<"N","o"," ","t","a","b","l","e","s"," ","f","o","u","n","d"," ","i","n"," ",
      "t","h","e"," ","r","e","l","a","t","i","o","n","a","l"," ",
      "a","l","g","e","b","r","a">>

NoOrdersMessage ==
    <<"N","o"," ","v","a","l","i","d"," ","j","o","i","n"," ",
      "o","r","d","e","r","s"," ","f","o","u","n","d">>

NoPlanMessage ==
    <<"N","o"," ","v","a","l","i","d"," ","p","l","a","n"," ","f","o","u","n","d">>

ErrorWord == <<"e", "r", "r", "o", "r">>

\* {"error": message}
ErrorResult(message) == << Item("error", [k |-> "str", s |-> message]) >>

\* {'order': ..., 'strategies': ..., 'cost': ...}
Plan(order, strategies, cost) ==
    [k |-> "dict", order |-> order, strategies |-> strategies, cost |-> cost]

\* 'error' not in plan: a substring test on a str, a key test on a dict
ErrorNotIn(plan) ==
    IF plan.k = "str" THEN ~StrContains(plan.s, ErrorWord) ELSE TRUE

\* lines 175-181: the loop over best_plans.items()
RECURSIVE FindBest(_, _)
FindBest(items, best) ==
    IF items = <<>> \/ best.raised THEN best
    ELSE LET plan == Head(items).val
         IN  IF ErrorNotIn(plan)
             THEN IF plan.k = "str"
                  THEN [best EXCEPT !.raised = TRUE]     \* plan['cost'] of a str: TypeError
                  ELSE IF plan.cost < best.cost
                       THEN FindBest(Tail(items),
                                [best EXCEPT !.cost = plan.cost, !.method = Head(items).key])
                       ELSE FindBest(Tail(items), best)
             ELSE FindBest(Tail(items), best)

\* generate_best_plan_json: the document returned, or the exception raised;
\* best_method is falsy ("") until a plan is found
generate_best_plan_json(best_plans) ==
    LET best == FindBest(best_plans, [method |-> "", cost |-> Infinity, raised |-> FALSE])
    IN  IF best.raised THEN [kind |-> "raised", exception |-> "TypeError"]
        ELSE IF best.method = ""
        THEN [kind |-> "document", error |-> NoPlanMessage]
        ELSE [kind |-> "document", type |-> "project", cost |-> best.cost,
              order |-> (CHOOSE it \in Range(best_plans) : it.key = best.method).val.order]

\* tables and join_graph of a query: only tables with an edge are keys
Init_bp ==
    /\ bp_pc = "start"
    /\ \E S \in SUBSET OrderTables :
          /\ bp_tables \in ListsOf(S)
          /\ \E edges \in SUBSET EdgesOver(S) : bp_graph = GraphWith(UNION edges, edges)
    /\ bp_plans = None
    /\ bp_doc = None
    /\ JoIdle
    /\ IdleNotBp

\* lines 915-916
NoTables ==
    /\ bp_pc = "start"
    /\ bp_tables = <<>>
    /\ bp_plans' = ErrorResult(NoTablesMessage)
    /\ bp_pc' = "returned"
    /\ UNCHANGED <<bp_tables, bp_graph, bp_doc, joVars, notBp>>

\* line 919: the call of generate_valid_join_orders
CallOrders ==
    /\ bp_pc = "start"
    /\ bp_tables # <<>>
    /\ jo_pc' = "start"
    /\ jo_tables' = bp_tables
    /\ jo_graph' = bp_graph
    /\ bp_pc' = "orders"
    /\ UNCHANGED <<bp_tables, bp_graph, bp_plans, bp_doc, jo_i, jo_queue, jo_valid, notBp>>

\* generate_valid_join_orders runs
RunOrders == bp_pc = "orders" /\ Next_jo

\* lines 921-922
NoOrders ==
    /\ bp_pc = "orders"
    /\ jo_pc = "done"
    /\ jo_valid = <<>>
    /\ bp_plans' = ErrorResult(NoOrdersMessage)
    /\ bp_pc' = "returned"
    /\ UNCHANGED <<bp_tables, bp_graph, bp_doc, joVars, notBp>>

\* lines 928-1046: for every method the best order, its strategies and cost
BuildPlans ==
    /\ bp_pc = "orders"
    /\ jo_pc = "done"
    /\ jo_valid # <<>>
    /\ \E best_order \in Range(jo_valid), cost \in [DOMAIN selectivity_methods -> PlanCosts] :
          bp_plans' = [m \in DOMAIN selectivity_methods |->
                          Item(selectivity_methods[m],
                               Plan(best_order,
                                    [i \in 1..(Len(best_order) - 1) |-> "hash"],
                                    cost[m]))]
    /\ bp_pc' = "returned"
    /\ UNCHANGED <<bp_tables, bp_graph, bp_doc, joVars, notBp>>

\* main, line 1076: best_plan_json = optimizer.generate_best_plan_json(best_plans)
BestPlanJson ==
    /\ bp_pc = "returned"
    /\ bp_doc' = generate_best_plan_json(bp_plans)
    /\ bp_pc' = "done"
    /\ UNCHANGED <<bp_tables, bp_graph, bp_plans, joVars, notBp>>

Next_bp == NoTables \/ CallOrders \/ RunOrders \/ NoOrders \/ BuildPlans \/ BestPlanJson

SpecBatch == Init_bp /\ [][Next_bp]_vars

(***************************************************************************)
(* Properties of the batch join pipeline.                                  *)
(***************************************************************************)

HasErrorField(result) == \E i \in DOMAIN result : result[i].key = "error"

\* optimize_join_query found no tables or no valid join order
NoPlanOutcome ==
    \/ bp_tables = <<>>
    \/ bp_tables # <<>> /\ jo_pc = "done" /\ jo_valid = <<>>

\* C10: when optimize_join_query finds no tables or no valid join order its
\* result carries an 'error' field, and generate_best_plan_json turns that
\* result into an error document instead of raising
C10_NoPlanIsAValue ==
    (bp_pc = "done" /\ NoPlanOutcome) =>
        /\ HasErrorField(bp_plans)
        /\ bp_doc.kind = "document"
        /\ "error" \in DOMAIN bp_doc

\* the first half alone: the result of optimize_join_query carries 'error'
C10_ErrorFieldReturned ==
    (bp_pc \in {"returned", "done"} /\ NoPlanOutcome) => HasErrorField(bp_plans)

(***************************************************************************)
(* dp_join_optimizer (test.py, and order_then_choose.py with the fixed     *)
(* selectivity estimator).  Row counts are multiples of 10, so that the    *)
(* selectivity 0.1 is a division by 10 without remainder.                  *)
(***************************************************************************)

\* None, where the other values are records
NoneObject == [none |-> TRUE]

\* float('inf') as a cost, with inf + x = inf
InfiniteCost == 1000000

CostSum(a, b) == IF a = InfiniteCost \/ b = InfiniteCost THEN InfiniteCost ELSE a + b

JoinPredicate(left_table, right_table) ==
    [left_table |-> left_table, right_table |-> right_table]

\* class Plan
DpPlan(tables, cost, cardinality, plan_repr) ==
    [tables |-> tables, cost |-> cost, cardinality |-> cardinality,
     plan_repr |-> plan_repr]

\* find_predicate_between / find_predicate: the first predicate that connects
\* the two plans, or None
find_predicate_between(left_plan, right_plan, predicates) ==
    LET hits == { i \in DOMAIN predicates :
                    \/ /\ predicates[i].left_table \in left_plan.tables
                       /\ predicates[i].right_table \in right_plan.tables
                    \/ /\ predicates[i].right_table \in left_plan.tables
                       /\ predicates[i].left_table \in right_plan.tables }
    IN  IF hits = {} THEN NoneObject
        ELSE predicates[CHOOSE i \in hits : \A j \in hits : i <= j]

\* the cost a cost model gives the join: NestedLoopCost, HashJoinCost,
\* IndexNestedLoopCost of test.py, the FixedSelectivityEstimator of
\* order_then_choose.py
JoinCost(cost_model, has_index, left, right, predicate) ==
    LET children == CostSum(left.cost, right.cost)
    IN  CASE cost_model = "NestedLoop" ->
                CostSum(children, left.cardinality * right.cardinality)
          [] cost_model = "HashJoin" ->
                CostSum(children, left.cardinality + right.cardinality)
          [] cost_model = "IndexNL" ->
                IF has_index[predicate.right_table]
                THEN CostSum(children, left.cardinality * 10)
                ELSE InfiniteCost
          [] cost_model = "Fixed" ->
                CostSum(children, (left.cardinality * right.cardinality) \div 10)

\* the plan_repr a cost model gives the join
JoinRepr(cost_model, has_index, left, right, predicate) ==
    CASE cost_model = "HashJoin" ->
            "(HashJoin " \o left.plan_repr \o " JOIN " \o right.plan_repr \o ")"
      [] cost_model = "IndexNL" ->
            IF has_index[predicate.right_table]
            THEN "(IndexNL " \o left.plan_repr \o " JOIN " \o right.plan_repr \o ")"
            ELSE "InvalidPlan"
      [] OTHER -> "(" \o left.plan_repr \o " JOIN " \o right.plan_repr \o ")"

\* cost_model.estimate_join(left, right, predicate)
estimate_join(in, left, right, predicate) ==
    DpPlan(left.tables \cup right.tables,
           JoinCost(in.cost_model, in.has_index, left, right, predicate),
           (left.cardinality * right.cardinality) \div 10,
           JoinRepr(in.cost_model, in.has_index, left, right, predicate))

\* itertools.combinations(list, k), in its order
RECURSIVE Combinations(_, _)
Combinations(list, k) ==
    IF k = 0 THEN <<<<>>>>
    ELSE IF Len(list) < k THEN <<>>
    ELSE LET with == Combinations(Tail(list), k - 1)
         IN  [i \in DOMAIN with |-> <<Head(list)>> \o with[i]]
             \o Combinations(Tail(list), k)

\* the first plan when no later one is cheaper, whatever the later ones cost
KeepFirst(best_plan, new_plan) == IF best_plan = NoneObject THEN new_plan ELSE best_plan

\* lines 203-204: if best_plan is None or new_plan.cost < best_plan.cost
Better(best_plan, new_plan) ==
    IF best_plan = NoneObject THEN new_plan
    ELSE IF new_plan.cost < best_plan.cost THEN new_plan ELSE best_plan

\* lines 186-204 for the left parts of one subset, in order
RECURSIVE TryLeftParts(_, _, _, _, _)
TryLeftParts(in, dp, subset, left_parts, best_plan) ==
    IF left_parts = <<>> THEN best_plan
    ELSE LET left_names == Range(Head(left_parts))
             right_names == Range(subset) \ left_names
             rest == Tail(left_parts)
         IN  IF left_names \notin DOMAIN dp \/ right_names \notin DOMAIN dp
             THEN TryLeftParts(in, dp, subset, rest, best_plan)
             ELSE LET predicate ==
                          find_predicate_between(dp[left_names], dp[right_names], in.predicates)
                  IN  IF predicate = NoneObject
                      THEN TryLeftParts(in, dp, subset, rest, best_plan)
                      ELSE TryLeftParts(in, dp, subset, rest,
                               Better(best_plan,
                                      estimate_join(in, dp[left_names], dp[right_names],
                                                    predicate)))

\* lines 185-186: for i in range(1, size): for left_part in combinations(subset, i)
LeftParts(subset) ==
    Flatten([i \in 1..(Len(subset) - 1) |-> Combinations(subset, i)])

\* lines 180-181: for size ...: for subset in combinations(tables, size)
SubsetsInOrder(tables) ==
    Flatten([n \in 1..(Len(tables) - 1) |-> Combinations(tables, n + 1)])

\* the largest number of tables of a generated query
MaxDpTables == 3

DpTableNames == <<"a", "b", "c", "d", "e">>

\* the pairs of positions of tables, in a fixed order
RECURSIVE PairsFrom(_, _, _)
PairsFrom(n, i, j) ==
    IF i >= n THEN <<>>
    ELSE IF j > n THEN PairsFrom(n, i + 1, i + 2)
    ELSE << <<i, j>> >> \o PairsFrom(n, i, j + 1)

\* a predicate list: every pair of tables unjoined, or joined one way round
\* or the other
PredicateLists(n) ==
    LET pairs == PairsFrom(n, 1, 2)
    IN  { Flatten([k \in DOMAIN pairs |->
              IF way[k] = 0 THEN <<>>
              ELSE IF way[k] = 1
              THEN <<JoinPredicate(DpTableNames[pairs[k][1]], DpTableNames[pairs[k][2]])>>
              ELSE <<JoinPredicate(DpTableNames[pairs[k][2]], DpTableNames[pairs[k][1]])>>])
          : way \in [DOMAIN pairs -> 0..2] }

\* row counts of the tables, by position
RowProfiles == { <<10, 20, 30, 40, 50>>, <<50, 40, 30, 20, 10>>, <<20, 10, 40, 10, 30>> }

DpInputs ==
    { [tables      |-> SubSeq(DpTableNames, 1, n),
       row_count   |-> [i \in 1..n |-> rows[i]],
       has_index   |-> [t \in Range(DpTableNames) |-> t \in {"a", "c", "e"}],
       predicates  |-> preds,
       cost_model  |-> cm]
      : n \in 0..MaxDpTables, rows \in RowProfiles,
        preds \in PredicateLists(MaxDpTables),
        cm \in {"NestedLoop", "HashJoin", "IndexNL", "Fixed"} }

Init_dp ==
    /\ dp_pc = "start"
    /\ dp_in \in { in \in DpInputs :
                     \A i \in DOMAIN in.predicates :
                        {in.predicates[i].left_table, in.predicates[i].right_table}
                            \subseteq Range(in.tables) }
    /\ dp_dp = <<>>
    /\ dp_todo = <<>>
    /\ dp_result = NoneObject
    /\ IdleNotDp

\* lines 172-177: the base cases
BaseCases ==
    /\ dp_pc = "start"
    /\ dp_dp' = [s \in { {dp_in.tables[i]} : i \in DOMAIN dp_in.tables } |->
                    LET i == CHOOSE i \in DOMAIN dp_in.tables : s = {dp_in.tables[i]}
                    IN  DpPlan(s, 0, dp_in.row_count[i], dp_in.tables[i])]
    /\ dp_todo' = SubsetsInOrder(dp_in.tables)
    /\ dp_pc' = "joins"
    /\ UNCHANGED <<dp_in, dp_result, notDp>>

\* lines 181-207: the next subset
SolveSubset ==
    /\ dp_pc = "joins"
    /\ dp_todo # <<>>
    /\ LET subset == Head(dp_todo)
           best_plan == TryLeftParts(dp_in, dp_dp, subset, LeftParts(subset), NoneObject)
       IN  dp_dp' = IF best_plan = NoneObject THEN dp_dp
                    ELSE [s \in DOMAIN dp_dp \cup {Range(subset)} |->
                             IF s = Range(subset) THEN best_plan ELSE dp_dp[s]]
    /\ dp_todo' = Tail(dp_todo)
    /\ UNCHANGED <<dp_pc, dp_in, dp_result, notDp>>

\* lines 209-210: return dp.get(full_set)
ReturnPlan ==
    /\ dp_pc = "joins"
    /\ dp_todo = <<>>
    /\ dp_result' = DictGet(dp_dp, Range(dp_in.tables), NoneObject)
    /\ dp_pc' = "done"
    /\ UNCHANGED <<dp_in, dp_dp, dp_todo, notDp>>

Next_dp == BaseCases \/ SolveSubset \/ ReturnPlan

SpecDP == Init_dp /\ [][Next_dp]_vars

(***************************************************************************)
(* Properties of the subset DP.                                            *)
(***************************************************************************)

DpAllTables == Range(dp_in.tables)

DpBasePlan(t) ==
    LET i == CHOOSE i \in DOMAIN dp_in.tables : dp_in.tables[i] = t
    IN  DpPlan({t}, 0, dp_in.row_count[i], t)

\* a predicate joins a table of L and a table of R, either way round
Connects(L, R) ==
    \E i \in DOMAIN dp_in.predicates :
        LET p == dp_in.predicates[i]
        IN  \/ p.left_table \in L /\ p.right_table \in R
            \/ p.right_table \in L /\ p.left_table \in R

\* the plans of all binary join trees over S (bushy, either child order) in
\* which every join has a connecting predicate, costed by the cost model
RECURSIVE TreePlans(_)
TreePlans(S) ==
    IF S = {} THEN {}
    ELSE IF Cardinality(S) = 1 THEN { DpBasePlan(CHOOSE t \in S : TRUE) }
    ELSE UNION { IF Connects(L, S \ L)
                 THEN { estimate_join(dp_in, l, r,
                            find_predicate_between(l, r, dp_in.predicates))
                        : l \in TreePlans(L), r \in TreePlans(S \ L) }
                 ELSE {}
                 : L \in (SUBSET S) \ {{}, S} }

\* the tables a chain of predicates links to a table of S
RECURSIVE LinkedTo(_)
LinkedTo(S) ==
    LET more == S \cup { t \in DpAllTables : Connects(S, {t}) }
    IN  IF more = S THEN S ELSE LinkedTo(more)

PredicateGraphConnected ==
    \A t \in DpAllTables : LinkedTo({t}) = DpAllTables

RECURSIVE Gcd(_, _)
Gcd(a, b) == IF b = 0 THEN a ELSE Gcd(b, a % b)

Abs(a) == IF a < 0 THEN 0 - a ELSE a

Frac(n, d) == LET g == Gcd(Abs(n), Abs(d)) IN
              IF d < 0 THEN <<(0 - n) \div g, (0 - d) \div g>> ELSE <<n \div g, d \div g>>

Num(n) == <<n, 1>>

FAdd(x, y) == LET g == Gcd(x[2], y[2]) IN
              Frac(x[1] * (y[2] \div g) + y[1] * (x[2] \div g), (x[2] \div g) * y[2])

FSub(x, y) == FAdd(x, <<0 - y[1], y[2]>>)

FMul(x, y) == LET a == Frac(x[1], y[2])
                  b == Frac(y[1], x[2])
              IN  Frac(a[1] * b[1], a[2] * b[2])

FDiv(x, y) == FMul(x, <<y[2], y[1]>>)

FLess(x, y) == x[1] * y[2] < y[1] * x[2]

FMax(x, y) == IF FLess(x, y) THEN y ELSE x

\* a lookup without the default of 0.5
MappedOnly(pred_type) ==
    IF pred_type = "EQ" THEN Frac(1, 10)
    ELSE IF pred_type \in {"GT", "LT"} THEN Frac(1, 2) ELSE Num(1)

\* predicate_selectivity.get(pred_type, 0.5)
predicate_selectivity(pred_type) ==
    IF pred_type = "EQ" THEN Frac(1, 10) ELSE Frac(1, 2)

cpu_tuple_cost == Frac(1, 100)

cpu_operator_cost == Frac(1, 400)

seq_page_cost == Num(1)

\* node[key] = value
SetField(node, key, value) ==
    [k \in DOMAIN node \cup {key} |-> IF k = key THEN value ELSE node[k]]

HasField(node, key) == key \in DOMAIN node

\* what calculate_cost leaves: the node as annotated, the returned pair, the
\* visits counted in self.expr_occ, or raised = TRUE with the annotations made
\* before the exception
Costed(node, cost, size, occ) ==
    [raised |-> FALSE, node |-> node, cost |-> cost, size |-> size, occ |-> occ]

Raised(node, occ) ==
    [raised |-> TRUE, node |-> node, cost |-> Num(0), size |-> Num(0), occ |-> occ]

\* self.exprs as a lookup: the entry of an id, or NoneObject (an id that is
\* not in it raises, as does the attribute while it is not set)
ExprOf(exprs, id) ==
    IF \A i \in 1..Len(exprs) : exprs[i].id # id
    THEN NoneObject
    ELSE exprs[CHOOSE i \in 1..Len(exprs) : exprs[i].id = id].node

\* self.expr_occ[expr_id] = self.expr_occ.get(expr_id, 0) + 1
CountVisit(occ, id) ==
    [k \in DOMAIN occ \cup {id} |-> IF k = id
                                    THEN (IF id \in DOMAIN occ THEN occ[id] ELSE 0) + 1
                                    ELSE occ[k]]

\* CostCalculator.calculate_cost(node), with self.exprs = exprs, self.expr_occ = occ
\* and get_table_statistics answering from stats (a table it does not know raises)
RECURSIVE calculate_cost(_, _, _, _)
calculate_cost(node, stats, exprs, occ) ==
    IF ~HasField(node, "type") THEN Raised(node, occ)
    ELSE CASE node.type = "base_relation" ->
            LET table_name == node.tables[1].name IN
            IF table_name \notin DOMAIN stats THEN Raised(node, occ)
            ELSE LET row_size == Num(stats[table_name].row_count)
                     page_size == Num(stats[table_name].page_count)
                     cost == FAdd(FMul(row_size, cpu_tuple_cost), FMul(page_size, seq_page_cost))
                 IN  Costed(SetField(SetField(node, "cost", cost), "cardinality", row_size),
                            cost, row_size, occ)
      [] node.type = "select" ->
            LET in == calculate_cost(node.input, stats, exprs, occ)
                with_input == SetField(node, "input", in.node)
            IN  IF in.raised THEN Raised(with_input, in.occ)
                ELSE IF ~HasField(node.condition, "type") THEN Raised(with_input, in.occ)
                ELSE LET selectivity == predicate_selectivity(node.condition.type)
                         output_size == FMul(in.size, selectivity)
                     IN  Costed(SetField(SetField(with_input, "cost",
                                    FAdd(in.cost, FMul(in.size, cpu_operator_cost))),
                                    "cardinality", output_size),
                                FAdd(in.cost, in.size), output_size, in.occ)
      [] node.type = "project" ->
            LET in == calculate_cost(node.input, stats, exprs, occ)
                with_input == SetField(node, "input", in.node)
            IN  IF in.raised THEN Raised(with_input, in.occ)
                ELSE Costed(SetField(SetField(with_input, "cost", in.cost), "cardinality", in.size),
                            in.cost, in.size, in.occ)
      [] node.type = "join" ->
            LET l == calculate_cost(node.left, stats, exprs, occ)
                with_left == SetField(node, "left", l.node)
            IN  IF l.raised THEN Raised(with_left, l.occ)
                ELSE LET r == calculate_cost(node.right, stats, exprs, l.occ)
                         with_both == SetField(with_left, "right", r.node)
                     IN  IF r.raised THEN Raised(with_both, r.occ)
                         ELSE IF FMax(l.size, r.size) = Num(0) THEN Raised(with_both, r.occ)
                         ELSE LET join_cost == FDiv(FMul(l.size, r.size), FMax(l.size, r.size))
                                  output_size == FDiv(join_cost, FMax(l.size, r.size))
                                  cost == FAdd(FAdd(l.cost, r.cost), join_cost)
                              IN  Costed(SetField(SetField(with_both, "cost", cost),
                                                  "cardinality", output_size),
                                         cost, output_size, r.occ)
      [] node.type = "subquery" ->
            LET sub == calculate_cost(node.query, stats, exprs, occ)
                with_query == SetField(node, "query", sub.node)
            IN  IF sub.raised THEN Raised(with_query, sub.occ)
                ELSE Costed(SetField(with_query, "cost", sub.cost), sub.cost, sub.size, sub.occ)
      [] node.type = "expr_ref" ->
            LET expr == ExprOf(exprs, node.id) IN
            IF expr = NoneObject THEN Raised(node, occ)
            ELSE LET counted == CountVisit(occ, node.id)
                     with_cost == IF HasField(expr, "cost")
                                  THEN SetField(node, "cost", expr.cost) ELSE node
                 IN  IF ~HasField(expr, "cardinality") THEN Raised(with_cost, counted)
                     ELSE IF ~HasField(expr, "cost")
                     THEN Raised(SetField(with_cost, "cardinality", expr.cardinality), counted)
                     ELSE Costed(SetField(with_cost, "cardinality", expr.cardinality),
                                 expr.cost, expr.cardinality, counted)
      [] OTHER -> Raised(node, occ)

\* the node types calc_subseq_cost gives a cost
costed_types == {"select", "project", "join", "base_relation", "subquery"}

\* ---- the documents calc_subseq_cost is run on ----

\* the number of expr_ref nodes a generated query holds, at most
MaxRefs == 2

CcBase(t) == [type |-> "base_relation", tables |-> <<[name |-> t]>>]

CcColumn(t) == [type |-> "column", table |-> t, attr |-> "x"]

CcCompare(op, t) == [type |-> op, left |-> CcColumn(t), right |-> [type |-> "int", value |-> 1]]

CcSelect(cond, in) == [type |-> "select", condition |-> cond, input |-> in]

CcProject(in) == [type |-> "project", input |-> in]

CcJoin(l, r) == [type |-> "join", left |-> l, right |-> r]

ExprRef(id) == [type |-> "expr_ref", id |-> id]

\* row_count and page_count of pg_class, per table
StatsProfiles ==
    { [a |-> [row_count |-> 100, page_count |-> 1],
       b |-> [row_count |-> 500, page_count |-> 5]],
      [a |-> [row_count |-> 200, page_count |-> 2],
       b |-> [row_count |-> 40, page_count |-> 1]] }

\* common expressions that are plan nodes, and ones that are conditions
RelationalExprs ==
    { CcBase("a"), CcSelect(CcCompare("EQ", "a"), CcBase("a")),
      CcSelect(CcCompare("GT", "b"), CcBase("b")), CcJoin(CcBase("a"), CcBase("b")) }

ConditionExprs == { CcCompare("EQ", "a"), CcCompare("GT", "a") }

\* the places of a query an expr_ref to a plan node / to a condition stands in
RelationalHolders(ref) == { ref, CcProject(ref), CcSelect(CcCompare("EQ", "b"), ref) }

ConditionHolders(ref) == { CcSelect(ref, CcBase("a")), CcSelect(ref, CcBase("b")) }

\* queries with n of the holders, joined left-deep
RECURSIVE QueriesOver(_, _)
QueriesOver(holders, n) ==
    IF n = 0 THEN { CcJoin(CcBase("a"), CcBase("b")) }
    ELSE IF n = 1 THEN holders \cup { CcJoin(h, CcBase("b")) : h \in holders }
    ELSE { CcJoin(q, h) : q \in QueriesOver(holders, n - 1), h \in holders }

CcDocs ==
    LET ref == ExprRef("expr_0") IN
    { [query |-> q, common_expressions |-> <<[id |-> "expr_0", node |-> e]>>] :
        q \in UNION { QueriesOver(RelationalHolders(ref), n) : n \in 0..MaxRefs },
        e \in RelationalExprs }
    \cup
    { [query |-> q, common_expressions |-> <<[id |-> "expr_0", node |-> e]>>] :
        q \in UNION { QueriesOver(ConditionHolders(ref), n) : n \in 1..MaxRefs },
        e \in ConditionExprs }
    \cup
    { [query |-> q, common_expressions |-> <<>>] :
        q \in QueriesOver(RelationalHolders(ref), 1) \cup QueriesOver({}, 0) }

\* ---- calc_subseq_cost, one step per loop iteration ----

Init_cc ==
    /\ cc_pc = "exprs"
    /\ \E d \in CcDocs, stats \in StatsProfiles :
          cc_doc = [query |-> d.query, common_expressions |-> d.common_expressions,
                    stats |-> stats]
    /\ cc_i = 0
    /\ cc_exprs = <<>>
    /\ cc_expr_occ = <<>>
    /\ cc_cost = NoneObject
    /\ cc_result = NoneObject
    /\ IdleNotCc

\* lines 251-260: one entry of common_expressions gets its cost
CostExpression ==
    /\ cc_pc = "exprs"
    /\ cc_i < Len(cc_doc.common_expressions)
    /\ LET entry == cc_doc.common_expressions[cc_i + 1]
           node == entry.node
       IN  IF ~HasField(node, "type") \/ node.type \notin costed_types
           THEN /\ cc_i' = cc_i + 1
                /\ UNCHANGED <<cc_pc, cc_doc, cc_expr_occ>>
           ELSE LET c == calculate_cost(node, cc_doc.stats, cc_exprs, cc_expr_occ)
                    costed == IF c.raised THEN c.node
                              ELSE SetField(SetField(c.node, "cost", c.cost),
                                            "cardinality", c.size)
                IN  /\ cc_doc' = [cc_doc EXCEPT !.common_expressions[cc_i + 1].node = costed]
                    /\ cc_expr_occ' = c.occ
                    /\ cc_pc' = IF c.raised THEN "raised" ELSE "exprs"
                    /\ cc_i' = IF c.raised THEN cc_i ELSE cc_i + 1
    /\ UNCHANGED <<cc_exprs, cc_cost, cc_result, notCc>>

\* lines 262-267: self.exprs, self.expr_occ, and the cost of the main query
CostQuery ==
    /\ cc_pc = "exprs"
    /\ cc_i = Len(cc_doc.common_expressions)
    /\ cc_exprs' = cc_doc.common_expressions
    /\ LET c == calculate_cost(cc_doc.query, cc_doc.stats, cc_doc.common_expressions, <<>>)
       IN  /\ cc_doc' = [cc_doc EXCEPT !.query = c.node]
           /\ cc_expr_occ' = c.occ
           /\ cc_cost' = IF c.raised THEN NoneObject ELSE [cost |-> c.cost, cardinality |-> c.size]
           /\ cc_pc' = IF c.raised THEN "raised" ELSE "total"
    /\ UNCHANGED <<cc_i, cc_result, notCc>>

\* total_cost -= common_expressions[expr_id]["cost"] * (occurrences - 1), over a set of ids
RECURSIVE Amortized(_, _, _, _)
Amortized(total_cost, common_expressions, occ, ids) ==
    IF ids = {} THEN total_cost
    ELSE LET id == CHOOSE x \in ids : TRUE
             expr == ExprOf(common_expressions, id)
         IN  Amortized(FSub(total_cost, FMul(expr.cost, Num(occ[id] - 1))),
                       common_expressions, occ, ids \ {id})

\* lines 269-275
ReturnTotal ==
    /\ cc_pc = "total"
    /\ cc_result' = [total_cost |-> Amortized(cc_cost.cost, cc_doc.common_expressions,
                                              cc_expr_occ, DOMAIN cc_expr_occ),
                     cardinality |-> cc_cost.cardinality]
    /\ cc_pc' = "done"
    /\ UNCHANGED <<cc_doc, cc_i, cc_exprs, cc_expr_occ, cc_cost, notCc>>

Next_cc == CostExpression \/ CostQuery \/ ReturnTotal

SpecCost == Init_cc /\ [][Next_cc]_vars

(***************************************************************************)
(* Properties of the cost annotation                                       *)
(***************************************************************************)

ChildFields == {"left", "right", "input", "query", "condition"}

\* the expr_ref nodes of a tree that name id
RECURSIVE CountRefs(_, _)
CountRefs(node, id) ==
    IF node.type = "expr_ref" THEN (IF node.id = id THEN 1 ELSE 0)
    ELSE SumSeq([i \in 1..5 |->
            LET f == <<"left", "right", "input", "query", "condition">>[i] IN
            IF f \in DOMAIN node THEN CountRefs(node[f], id) ELSE 0])

\* the tree as it was before calculate_cost wrote cost and cardinality on it
RECURSIVE Unannotated(_)
Unannotated(node) ==
    [k \in DOMAIN node \ {"cost", "cardinality"} |->
        IF k \in ChildFields THEN Unannotated(node[k]) ELSE node[k]]

\* the tree with every expr_ref replaced by the expression
RECURSIVE ExpandInline(_, _)
ExpandInline(node, expr) ==
    IF node.type = "expr_ref" THEN expr
    ELSE [k \in DOMAIN node |->
            IF k \in ChildFields THEN ExpandInline(node[k], expr) ELSE node[k]]

SharedExpr == Unannotated(cc_doc.common_expressions[1].node)

InlineQuery == ExpandInline(Unannotated(cc_doc.query), SharedExpr)

InlineCost == calculate_cost(InlineQuery, cc_doc.stats, <<>>, <<>>)

\* the cost of the shared expression alone; a condition has none and counts as 0
SharedCost ==
    LET c == calculate_cost(SharedExpr, cc_doc.stats, <<>>, <<>>) IN
    IF c.raised THEN Num(0) ELSE c.cost

OneEntryTwoRefs ==
    /\ cc_pc \in {"done", "raised"}
    /\ Len(cc_doc.common_expressions) = 1
    /\ CountRefs(cc_doc.query, cc_doc.common_expressions[1].id) = 2

\* C12: for a document with one common_expressions entry referenced by exactly
\* two expr_ref nodes, calc_subseq_cost returns the cost of the query with both
\* references expanded inline minus the cost of the entry once.
C12_SharedCountedOnce ==
    OneEntryTwoRefs =>
        /\ cc_pc = "done"
        /\ ~InlineCost.raised
        /\ cc_result.total_cost = FSub(InlineCost.cost, SharedCost)

\* the same, for an entry that is a plan node (one of costed_types)
C12_SharedPlanNodeCountedOnce ==
    (OneEntryTwoRefs /\ SharedExpr.type \in costed_types) =>
        /\ cc_pc = "done"
        /\ ~InlineCost.raised
        /\ cc_result.total_cost = FSub(InlineCost.cost, SharedCost)

C12_PlanNodeWitness ==
    /\ OneEntryTwoRefs /\ SharedExpr.type = "select" /\ cc_pc = "done"
    /\ FLess(cc_result.total_cost, InlineCost.cost)

(***************************************************************************)
(* Join cost estimation: src/join_optimization.py                          *)
(***************************************************************************)

\* The costs are floats that pass 2^31; the model computes them exactly, as
\* decimals m / 10000^s with m a natural number written in base 10000, least
\* significant digit first, or as inf.  Every constant of the cost functions
\* (0.01, 0.0025, 0.9, 0.95, 1/8192, ...) is such a decimal.
RECURSIVE BigTrim(_)
BigTrim(a) ==
    IF a = <<>> THEN <<>>
    ELSE IF a[Len(a)] = 0 THEN BigTrim(SubSeq(a, 1, Len(a) - 1)) ELSE a

RECURSIVE BigOf(_)
BigOf(n) == IF n = 0 THEN <<>> ELSE <<n % 10000>> \o BigOf(n \div 10000)

RECURSIVE BigAddCarry(_, _, _)
BigAddCarry(a, b, carry) ==
    IF a = <<>> /\ b = <<>> THEN BigOf(carry)
    ELSE LET x == (IF a = <<>> THEN 0 ELSE Head(a)) + (IF b = <<>> THEN 0 ELSE Head(b)) + carry
         IN  <<x % 10000>> \o BigAddCarry(IF a = <<>> THEN <<>> ELSE Tail(a),
                                          IF b = <<>> THEN <<>> ELSE Tail(b), x \div 10000)

BigAdd(a, b) == BigTrim(BigAddCarry(a, b, 0))

RECURSIVE BigTimesDigit(_, _, _)
BigTimesDigit(a, k, carry) ==
    IF a = <<>> THEN BigOf(carry)
    ELSE LET x == Head(a) * k + carry
         IN  <<x % 10000>> \o BigTimesDigit(Tail(a), k, x \div 10000)

RECURSIVE BigMul(_, _)
BigMul(a, b) ==
    IF a = <<>> \/ b = <<>> THEN <<>>
    ELSE BigAdd(BigTrim(BigTimesDigit(a, Head(b), 0)), <<0>> \o BigMul(a, Tail(b)))

\* a < b from digit i down, for a and b of one length
RECURSIVE BigLessFrom(_, _, _)
BigLessFrom(a, b, i) ==
    IF i = 0 THEN FALSE
    ELSE IF a[i] # b[i] THEN a[i] < b[i]
    ELSE BigLessFrom(a, b, i - 1)

\* a < b, both without leading zeros
BigLess(a, b) ==
    IF Len(a) # Len(b) THEN Len(a) < Len(b) ELSE BigLessFrom(a, b, Len(a))

\* floor(a / k) for 0 < k < 200000, from the most significant digit down
RECURSIVE BigDivFrom(_, _, _, _)
BigDivFrom(a, k, i, rem) ==
    IF i = 0 THEN <<>>
    ELSE LET x == rem * 10000 + a[i]
         IN  BigDivFrom(a, k, i - 1, x % k) \o <<x \div k>>

BigFloorDiv(a, k) == BigTrim(BigDivFrom(a, k, Len(a), 0))

\* the decimal m / 10000^s in lowest scale
RECURSIVE Dec(_, _)
Dec(m, s) ==
    IF m = <<>> THEN [inf |-> FALSE, m |-> <<>>, s |-> 0]
    ELSE IF s > 0 /\ Head(m) = 0 THEN Dec(Tail(m), s - 1)
    ELSE [inf |-> FALSE, m |-> m, s |-> s]

\* float('inf')
DInf == [inf |-> TRUE, m |-> <<>>, s |-> 0]

DInt(n) == Dec(BigOf(n), 0)

\* n / 10000, e.g. 0.9 = DFrac(9000)
DFrac(n) == Dec(BigOf(n), 1)

\* m with its scale raised to s
Scaled(x, s) == IF x.m = <<>> THEN <<>> ELSE [i \in 1..(s - x.s) |-> 0] \o x.m

\* The operations below take their arguments through a one-element set, so
\* that an argument that is itself a long expression is evaluated once.
SumOf(x, y) ==
    IF x.inf \/ y.inf THEN DInf
    ELSE LET s == IF x.s < y.s THEN y.s ELSE x.s
         IN  Dec(BigAdd(Scaled(x, s), Scaled(y, s)), s)

DAdd(a, b) == CHOOSE r \in { SumOf(x, y) : x \in {a}, y \in {b} } : TRUE

ProductOf(x, y) ==
    IF x.inf \/ y.inf THEN DInf ELSE Dec(BigMul(x.m, y.m), x.s + y.s)

DMul(a, b) == CHOOSE r \in { ProductOf(x, y) : x \in {a}, y \in {b} } : TRUE

IsLess(x, y) ==
    IF x.inf THEN FALSE
    ELSE IF y.inf THEN TRUE
    ELSE LET s == IF x.s < y.s THEN y.s ELSE x.s
         IN  BigLess(Scaled(x, s), Scaled(y, s))

DLess(a, b) == \E x \in {a}, y \in {b} : IsLess(x, y)

\* x // k for a finite x >= 0 and an int k
FloorOf(x, k) ==
    Dec(BigFloorDiv(IF Len(x.m) <= x.s THEN <<>> ELSE SubSeq(x.m, x.s + 1, Len(x.m)), k), 0)

DFloorDiv(a, k) == CHOOSE r \in { FloorOf(x, k) : x \in {a} } : TRUE

\* 1.0 / n for an n that divides 10000
DOneOver(n) == DFrac(10000 \div n)

\* self.cpu_tuple_cost = 0.01, self.cpu_operator_cost = 0.0025, self.seq_page_cost = 1.0
cpu_tuple == DFrac(100)

cpu_operator == DFrac(25)

seq_page_cost_d == DInt(1)

random_page_cost == DInt(4)

\* 1 / self.page_size = 1 / 8192 = 0.0001220703125
OneOverPageSize == Dec(<<5000, 312, 2207, 1>>, 4)

\* buffer_size // self.page_size = (8 * 1024 * 1024) // 8192
block_size == (8 * 1024 * 1024) \div 8192

\* lines 684-687, 728-732: the fixed selectivity and the default
FixedSelectivity == DFrac(1000)

HasColumn(stats, table, attr) == attr \in DOMAIN stats[table].columns

MaxInt(a, b) == IF a < b THEN b ELSE a

\* sum(mcv1[val] * mcv2[val] for val in common_values)
RECURSIVE SumOfProducts(_, _, _)
SumOfProducts(mcv1, mcv2, values) ==
    IF values = {} THEN DInt(0)
    ELSE LET val == CHOOSE v \in values : TRUE
         IN  DAdd(DMul(mcv1[val], mcv2[val]), SumOfProducts(mcv1, mcv2, values \ {val}))

\* estimate_selectivity(table1, table2, join_attrs, method); no table of the
\* model is named tmp..., and a table without statistics is the except branch
estimate_selectivity(stats, table1, table2, join_attrs, method) ==
    IF method = "fixed" THEN FixedSelectivity
    ELSE IF table1 \notin DOMAIN stats \/ table2 \notin DOMAIN stats THEN FixedSelectivity
    ELSE IF ~(HasColumn(stats, table1, join_attrs[1]) /\ HasColumn(stats, table2, join_attrs[2]))
    THEN FixedSelectivity
    ELSE LET c1 == stats[table1].columns[join_attrs[1]]
             c2 == stats[table2].columns[join_attrs[2]]
             max_ndv == MaxInt(c1.ndv, c2.ndv)
         IN  IF method = "ndv"
             THEN IF max_ndv <= 0 THEN FixedSelectivity ELSE DOneOver(max_ndv)
             ELSE IF method = "mcv"
             THEN LET common_values == DOMAIN c1.mcv \cap DOMAIN c2.mcv
                  IN  IF common_values # {}
                      THEN SumOfProducts(c1.mcv, c2.mcv, common_values)
                      ELSE IF max_ndv > 0 THEN DOneOver(max_ndv) ELSE FixedSelectivity
             ELSE FixedSelectivity

\* estimate_join_cost(table1, table2, join_attrs, strategy, selectivity)
estimate_join_cost(stats, table1, table2, strategy, selectivity) ==
    LET row_count1 == DInt(stats[table1].row_count)
        row_count2 == DInt(stats[table2].row_count)
        page_count1 == DInt(stats[table1].page_count)
        page_count2 == DInt(stats[table2].page_count)
        output_rows == DMul(DMul(row_count1, row_count2), selectivity)
    IN  CASE strategy = "hash" ->
                LET build_cost == DAdd(DMul(page_count1, seq_page_cost_d), DMul(row_count1, cpu_tuple))
                    probe_cost == DAdd(DMul(page_count2, seq_page_cost_d), DMul(row_count2, cpu_tuple))
                    hash_cpu_cost == DMul(DAdd(row_count1, output_rows), cpu_operator)
                IN  DAdd(DAdd(build_cost, probe_cost), hash_cpu_cost)
          [] strategy = "nested" ->
                DAdd(DMul(page_count1, seq_page_cost_d),
                     DMul(DMul(row_count1, page_count2), random_page_cost))
          [] strategy = "block" ->
                LET num_blocks == DFloorDiv(DAdd(page_count1, DInt(block_size - 1)), block_size)
                IN  DAdd(DMul(page_count1, seq_page_cost_d),
                         DMul(DMul(num_blocks, page_count2), seq_page_cost_d))
          [] OTHER -> DInf

\* lines 117-130, 962-973: the condition between current_table and the first
\* table of the prefix that has one, attributes swapped for a reversed key
find_join_attrs(prefix, current_table, join_conditions) ==
    LET hits == { j \in 1..Len(prefix) :
                    \/ <<prefix[j], current_table>> \in DOMAIN join_conditions
                    \/ <<current_table, prefix[j]>> \in DOMAIN join_conditions }
    IN  IF hits = {} THEN NoneObject
        ELSE LET j == CHOOSE h \in hits : \A g \in hits : h <= g
                 prev_table == prefix[j]
             IN  IF <<prev_table, current_table>> \in DOMAIN join_conditions
                 THEN [join_table |-> prev_table,
                       join_attrs |-> join_conditions[<<prev_table, current_table>>]]
                 ELSE [join_table |-> prev_table,
                       join_attrs |-> << join_conditions[<<current_table, prev_table>>][2],
                                         join_conditions[<<current_table, prev_table>>][1] >>]

\* get_intermediate_result_size: the rows after tables[1..i] have been joined
RECURSIVE RowsAfter(_, _, _, _, _)
RowsAfter(stats, tables, join_conditions, method, i) ==
    IF i = 1 THEN DInt(stats[tables[1]].row_count)
    ELSE LET before == RowsAfter(stats, tables, join_conditions, method, i - 1)
             found == find_join_attrs(SubSeq(tables, 1, i - 1), tables[i], join_conditions)
         IN  IF found = NoneObject THEN before
             ELSE DMul(DMul(before, DInt(stats[tables[i]].row_count)),
                       estimate_selectivity(stats, tables[i - 1], tables[i],
                                            found.join_attrs, method))

get_intermediate_result_size(stats, tables, join_conditions, method) ==
    RowsAfter(stats, tables, join_conditions, method, Len(tables))

\* estimate_join_cost_with_intermediate(intermediate_rows, table, join_attrs, strategy, selectivity)
estimate_join_cost_with_intermediate(stats, intermediate_rows, table, join_attrs, strategy, selectivity) ==
    LET row_count == DInt(stats[table].row_count)
        page_count == DInt(stats[table].page_count)
        avg_row_width == IF HasColumn(stats, table, join_attrs[2])
                         THEN DInt(stats[table].columns[join_attrs[2]].avg_width)
                         ELSE DInt(100)
        pages == DMul(DMul(intermediate_rows, avg_row_width), OneOverPageSize)
        intermediate_pages == IF DLess(pages, DInt(1)) THEN DInt(1) ELSE pages
        output_rows == DMul(DMul(intermediate_rows, row_count), selectivity)
    IN  CASE strategy = "hash" ->
                LET build_cost == DAdd(DMul(intermediate_pages, seq_page_cost_d),
                                       DMul(intermediate_rows, cpu_tuple))
                    probe_cost == DAdd(DMul(page_count, seq_page_cost_d), DMul(row_count, cpu_tuple))
                    hash_cpu_cost == DMul(DAdd(intermediate_rows, output_rows), cpu_operator)
                IN  DAdd(DAdd(build_cost, probe_cost), hash_cpu_cost)
          [] strategy = "nested" ->
                DAdd(DMul(intermediate_pages, seq_page_cost_d),
                     DMul(DMul(intermediate_rows, page_count), random_page_cost))
          [] strategy = "block" ->
                LET num_blocks == DFloorDiv(DAdd(intermediate_pages, DInt(block_size - 1)), block_size)
                IN  DAdd(DMul(intermediate_pages, seq_page_cost_d),
                         DMul(DMul(num_blocks, page_count), seq_page_cost_d))
          [] OTHER -> DInf

\* lines 931-935
method_to_strategy_preference(method) ==
    CASE method = "fixed" -> <<"hash", "nested", "block">>
      [] method = "ndv" -> <<"nested", "block", "hash">>
      [] method = "mcv" -> <<"block", "hash", "nested">>

\* lines 991-994, 1004-1007: 10% off for the preferred strategy, 5% for the second
Discounted(join_cost, strategy, strategy_preference) ==
    IF strategy = strategy_preference[1] THEN DMul(join_cost, DFrac(9000))
    ELSE IF strategy = strategy_preference[2] THEN DMul(join_cost, DFrac(9500))
    ELSE join_cost

\* "if cost < best: best = cost" over a list, best = inf at first: the index of
\* the first of the cheapest costs, 0 when every cost is inf
FirstCheapestOf(costs) ==
    LET finite == { i \in DOMAIN costs : ~costs[i].inf }
    IN  IF finite = {} THEN 0
        ELSE CHOOSE i \in finite :
                \A j \in finite : IF j < i THEN IsLess(costs[i], costs[j])
                                             ELSE ~IsLess(costs[j], costs[i])

FirstCheapest(list) == CHOOSE n \in { FirstCheapestOf(costs) : costs \in {list \o <<>>} } : TRUE

\* lines 985-1010: the strategies in preference order, the first cheapest kept
PickStrategy(in_order, strategy_preference, n) ==
    IF n = 0 THEN [cost |-> DInf, strategy |-> "None"]
    ELSE [cost |-> in_order[n], strategy |-> strategy_preference[n]]

BestStrategy(costs, strategy_preference) ==
    CHOOSE best \in
        { PickStrategy(in_order, strategy_preference, FirstCheapestOf(in_order)) :
            in_order \in { <<costs[strategy_preference[1]], costs[strategy_preference[2]],
                             costs[strategy_preference[3]]>> } } : TRUE

\* lines 950-1013, one iteration: join_order[k] is joined to the prefix before it
JoinNext(stats, join_conditions, method, join_order, k, before) ==
    LET prefix == SubSeq(join_order, 1, k - 1)
        current_table == join_order[k]
        found == find_join_attrs(prefix, current_table, join_conditions)
        strategy_preference == method_to_strategy_preference(method)
    IN  IF before.raised THEN before
        ELSE IF found = NoneObject
        THEN [raised |-> FALSE, has |-> FALSE, strategies |-> <<>>, cost |-> DInf]
        ELSE IF k > 2 /\ ~before.has
        THEN [raised |-> TRUE, has |-> FALSE, strategies |-> <<>>, cost |-> DInf]
        ELSE LET selectivity == estimate_selectivity(stats, found.join_table, current_table,
                                                     found.join_attrs, method)
                 costs == [strategy \in {"hash", "nested", "block"} |->
                             Discounted(
                               IF k = 2
                               THEN estimate_join_cost(stats, prefix[1], current_table,
                                                       strategy, selectivity)
                               ELSE DAdd(before.cost,
                                         estimate_join_cost_with_intermediate(stats,
                                           get_intermediate_result_size(stats, prefix,
                                               join_conditions, method),
                                           current_table, found.join_attrs, strategy,
                                           selectivity)),
                               strategy, strategy_preference)]
             IN  CHOOSE plan \in
                    { [raised |-> FALSE, has |-> TRUE, cost |-> best.cost,
                       strategies |-> (IF before.has THEN before.strategies ELSE <<>>)
                                          \o <<best.strategy>>] :
                        best \in { BestStrategy(costs, strategy_preference) } } : TRUE

\* lines 945-1013 for the prefix of k tables of one join order: whether
\* dp_table has the prefix, its cost and strategies; raised is the KeyError of
\* dp_table[prefix] for a prefix that was skipped
RECURSIVE PrefixPlan(_, _, _, _, _)
PrefixPlan(stats, join_conditions, method, join_order, k) ==
    IF k = 1
    THEN [raised |-> FALSE, has |-> TRUE, strategies |-> <<>>,
          cost |-> DMul(DInt(stats[join_order[1]].page_count), seq_page_cost_d)]
    ELSE CHOOSE plan \in
            { JoinNext(stats, join_conditions, method, join_order, k, before) :
                before \in { PrefixPlan(stats, join_conditions, method, join_order, k - 1) } } : TRUE

\* lines 1015-1020, 1038-1042: the first cheapest of the join orders; order <<>> is None
PickOrder(plans, join_orders) ==
    LET final_cost == [n \in DOMAIN plans |-> IF plans[n].has THEN plans[n].cost ELSE DInf]
        n == FirstCheapestOf(final_cost)
    IN  IF \E i \in DOMAIN plans : plans[i].raised THEN [raised |-> TRUE]
        ELSE IF n = 0
        THEN [raised |-> FALSE, order |-> <<>>, strategies |-> <<>>, cost |-> DInf]
        ELSE [raised |-> FALSE, order |-> join_orders[n],
              strategies |-> plans[n].strategies, cost |-> final_cost[n]]

\* lines 942-1042: best_plans[method]
BestPlanFor(stats, join_conditions, method, join_orders) ==
    CHOOSE best \in
        { PickOrder(plans, join_orders) :
            plans \in { [n \in DOMAIN join_orders |->
                            PrefixPlan(stats, join_conditions, method, join_orders[n],
                                       Len(join_orders[n]))] \o <<>> } } : TRUE

\* lines 104-162 of calculate_naive_cost: the cost after the first i tables
RECURSIVE NaiveCostAfter(_, _, _, _)
NaiveCostAfter(stats, join_conditions, original_order, i) ==
    IF i = 0 THEN DInt(0)
    ELSE IF i = 1
    THEN IF original_order[1] \in DOMAIN stats
         THEN DAdd(DMul(DInt(stats[original_order[1]].page_count), seq_page_cost_d),
                   DMul(DInt(stats[original_order[1]].row_count), cpu_tuple))
         ELSE DInt(100)
    ELSE LET total_cost == NaiveCostAfter(stats, join_conditions, original_order, i - 1)
             prefix == SubSeq(original_order, 1, i - 1)
             current_table == original_order[i]
             found == find_join_attrs(prefix, current_table, join_conditions)
         IN  IF found = NoneObject THEN DAdd(total_cost, DInt(500))
             ELSE LET selectivity == estimate_selectivity(stats, found.join_table, current_table,
                                                          found.join_attrs, "fixed")
                      intermediate_rows == get_intermediate_result_size(stats, prefix,
                                                                        join_conditions, "fixed")
                  IN  DAdd(total_cost,
                           IF i = 2
                           THEN estimate_join_cost(stats, prefix[1], current_table, "block",
                                                   selectivity)
                           ELSE estimate_join_cost_with_intermediate(stats, intermediate_rows,
                                    current_table, found.join_attrs, "block", selectivity))

calculate_naive_cost(stats, join_conditions, original_order) ==
    [order |-> original_order,
     strategies |-> [i \in 1..(IF original_order = <<>> THEN 0 ELSE Len(original_order) - 1)
                        |-> "block"],
     cost |-> NaiveCostAfter(stats, join_conditions, original_order, Len(original_order))]

\* ---- the queries the two cost functions are run on ----

ChainTables == <<"A", "B", "C">>

ChainRows == [A |-> 1000, B |-> 5000, C |-> 20000]

\* relpages of the three tables
PageProfiles == { [A |-> 10, B |-> 50, C |-> 200], [A |-> 100, B |-> 500, C |-> 2000] }

ColumnStats(ndv, mcv) == [ndv |-> ndv, avg_width |-> 4, mcv |-> mcv]

\* pg_stats of a join column: none, or n_distinct with or without most common values
ColumnProfiles ==
    { <<>> } \cup
    { [a \in {"x", "y"} |-> ColumnStats(ndv, <<>>)] : ndv \in {5, 1000} } \cup
    { [a \in {"x", "y"} |-> ColumnStats(10, [v \in {"1", "2"} |-> DFrac(5000)])] }

StatsOf(pages, columns) ==
    [t \in {"A", "B", "C"} |->
        [row_count |-> ChainRows[t], page_count |-> pages[t], columns |-> columns]]

\* join_conditions of a chain over the first n tables: keys in either
\* direction, the closure edge A-C that add_transitive_edges adds when
\* the chain goes through one attribute of B, and a chain with its last link missing
ChainConditions(n) ==
    IF n <= 1 THEN { <<>> }
    ELSE IF n = 2
    THEN { [k \in {<<"A", "B">>} |-> <<"x", "x">>], [k \in {<<"B", "A">>} |-> <<"x", "x">>] }
    ELSE { [k \in {<<"A", "B">>, <<"C", "B">>} |-> IF k[1] = "A" THEN <<"x", "x">> ELSE <<"y", "y">>],
           [k \in {<<"A", "B">>, <<"B", "C">>, <<"A", "C">>} |-> <<"x", "x">>],
           [k \in {<<"A", "B">>} |-> <<"x", "x">>] }

\* join_graph: both directions of every condition
GraphOfConditions(tables, join_conditions) ==
    [t \in { k[1] : k \in DOMAIN join_conditions } \cup { k[2] : k \in DOMAIN join_conditions } |->
        { u \in tables : <<t, u>> \in DOMAIN join_conditions \/ <<u, t>> \in DOMAIN join_conditions }]

\* list(tables) of line 427 is in the order of a set of strings, which differs
\* from run to run; the model takes the first n tables in two opposite orders
TableLists(n) ==
    { SubSeq(ChainTables, 1, n), [i \in 1..n |-> ChainTables[n + 1 - i]] \o <<>> }

Init_jc ==
    /\ jc_pc = "naive"
    /\ \E n \in 0..Len(ChainTables), pages \in PageProfiles, columns \in ColumnProfiles :
          LET S == Range(SubSeq(ChainTables, 1, n)) IN
          \E original_order \in ListsOf(S), tables \in TableLists(n),
             join_conditions \in ChainConditions(n) :
                jc_in = [original_order |-> original_order, tables |-> tables,
                         join_conditions |-> join_conditions,
                         join_graph |-> GraphOfConditions(S, join_conditions),
                         stats |-> StatsOf(pages, columns)]
    /\ jc_naive = NoneObject
    /\ jc_plans = <<>>
    /\ JoIdle
    /\ IdleNotJc

\* main, line 1070: naive_plan = optimizer.calculate_naive_cost(...)
NaiveCost ==
    /\ jc_pc = "naive"
    /\ jc_naive' = calculate_naive_cost(jc_in.stats, jc_in.join_conditions, jc_in.original_order)
    /\ jc_pc' = "parse"
    /\ UNCHANGED <<jc_in, jc_plans, joVars, notJc>>

\* lines 915-916: no tables
JcNoTables ==
    /\ jc_pc = "parse"
    /\ jc_in.tables = <<>>
    /\ jc_plans' = ErrorResult(NoTablesMessage)
    /\ jc_pc' = "done"
    /\ UNCHANGED <<jc_in, jc_naive, joVars, notJc>>

\* line 919: generate_valid_join_orders(tables, join_graph) is called
JcCallOrders ==
    /\ jc_pc = "parse"
    /\ jc_in.tables # <<>>
    /\ jo_pc' = "start"
    /\ jo_tables' = jc_in.tables
    /\ jo_graph' = jc_in.join_graph
    /\ jc_pc' = "orders"
    /\ UNCHANGED <<jc_in, jc_naive, jc_plans, jo_i, jo_queue, jo_valid, notJc>>

JcRunOrders == jc_pc = "orders" /\ Next_jo

\* lines 921-922: no join orders
JcNoOrders ==
    /\ jc_pc = "orders"
    /\ jo_pc = "done"
    /\ jo_valid = <<>>
    /\ jc_plans' = ErrorResult(NoOrdersMessage)
    /\ jc_pc' = "done"
    /\ UNCHANGED <<jc_in, jc_naive, joVars, notJc>>

\* lines 937-1042: the next selectivity method gets its best plan
PlanForMethod ==
    /\ jc_pc = "orders"
    /\ jo_pc = "done"
    /\ jo_valid # <<>>
    /\ Len(jc_plans) < Len(selectivity_methods)
    /\ LET method == selectivity_methods[Len(jc_plans) + 1]
           plan == BestPlanFor(jc_in.stats, jc_in.join_conditions, method, jo_valid)
       IN  IF plan.raised
           THEN jc_pc' = "raised" /\ UNCHANGED jc_plans
           ELSE /\ jc_plans' = Append(jc_plans,
                                      Item(method, Plan(plan.order, plan.strategies, plan.cost)))
                /\ UNCHANGED jc_pc
    /\ UNCHANGED <<jc_in, jc_naive, joVars, notJc>>

\* line 1046: return best_plans
ReturnBestPlans ==
    /\ jc_pc = "orders"
    /\ jo_pc = "done"
    /\ Len(jc_plans) = Len(selectivity_methods)
    /\ jo_valid # <<>>
    /\ jc_pc' = "done"
    /\ UNCHANGED <<jc_in, jc_naive, jc_plans, joVars, notJc>>

Next_jc ==
    \/ NaiveCost \/ JcNoTables \/ JcCallOrders \/ JcRunOrders \/ JcNoOrders
    \/ PlanForMethod \/ ReturnBestPlans

SpecJoinCost == Init_jc /\ [][Next_jc]_vars

(***************************************************************************)
(* Properties of the naive and the optimized join cost                     *)
(***************************************************************************)

\* A, B and C joined in a chain: a condition between A and B and one between B and C
ChainOfThree ==
    /\ Len(jc_in.tables) = 3
    /\ \A pair \in { {"A", "B"}, {"B", "C"} } :
          \E k \in DOMAIN jc_in.join_conditions : {k[1], k[2]} = pair

BothCostsReturned ==
    /\ jc_pc = "done"
    /\ Len(jc_plans) = Len(selectivity_methods)
    /\ \A n \in DOMAIN jc_plans : jc_plans[n].key = selectivity_methods[n]

\* every table of the original order after the first has a join condition with
\* a table before it
OriginalOrderJoins ==
    \A i \in 2..Len(jc_in.original_order) :
        \E j \in 1..(i - 1) :
            \E k \in DOMAIN jc_in.join_conditions :
                {k[1], k[2]} = {jc_in.original_order[i], jc_in.original_order[j]}

\* C13: for A (1000 rows), B (5000 rows) and C (20000 rows) joined in a chain,
\* the best-plan cost of optimize_join_query is at most the cost of
\* calculate_naive_cost, for each of the methods fixed, ndv and mcv.
C13_OptimizedAtMostNaive ==
    (ChainOfThree /\ BothCostsReturned) =>
        \A n \in DOMAIN jc_plans : ~DLess(jc_naive.cost, jc_plans[n].val.cost)

\* the same for the method fixed alone, when the original order is itself one
\* of the join orders
C13_FixedAtMostNaive ==
    (ChainOfThree /\ BothCostsReturned /\ OriginalOrderJoins) =>
        ~DLess(jc_naive.cost, jc_plans[1].val.cost)

\* the original order A, B, C, where ndv is above naive
C13_NdvAboveNaive ==
    /\ ChainOfThree /\ BothCostsReturned
    /\ jc_in.original_order = <<"A", "B", "C">>
    /\ DLess(jc_naive.cost, jc_plans[2].val.cost)

\* ---------------------------------------------------------------------------
\* Plan merge: add_selects (src/web_interface/selector.py)
\* ---------------------------------------------------------------------------

\* del node[key]
DelField(node, key) == [k \in DOMAIN node \ {key} |-> node[k]]

\* if 'alias' in node["tables"][0]: del node["tables"][0]['alias']
StripAlias(node) ==
    [node EXCEPT !.tables = <<DelField(node.tables[1], "alias")>> \o Tail(node.tables)]

\* json.dumps of one entry of "tables": the keys present, in the order name, alias
RECURSIVE DumpsTables(_, _)
DumpsTables(tables, i) ==
    IF i > Len(tables) THEN <<"]">>
    ELSE (IF i > 1 THEN <<",">> ELSE <<>>)
         \o <<"{", "name", ":", tables[i].name>>
         \o (IF HasField(tables[i], "alias") THEN <<",", "alias", ":", tables[i].alias>> ELSE <<>>)
         \o <<"}">> \o DumpsTables(tables, i + 1)

\* json.dumps(node) of a base relation (keys in the order type, tables, cost):
\* the text as a sequence of tokens; a cost that is present is part of it
DumpsRelation(node) ==
    <<"{", "type", ":", node.type, ",", "tables", ":", "[">> \o DumpsTables(node.tables, 1)
    \o (IF HasField(node, "cost") THEN <<",", "cost", ":", ToString(node.cost)>> ELSE <<>>)
    \o <<"}">>

\* find_base_relations (lines 11-34): fills mapping; the select directly above
\* a base relation is the one that is recorded. A node of another type without
\* "input" raises KeyError.
RECURSIVE find_base_relations(_, _)
find_base_relations(node, mapping) ==
    IF node.type = "select" THEN
        IF node.input.type = "base_relation" THEN
            LET input == StripAlias(node.input)
            IN  [raised |-> FALSE,
                 mapping |-> DictSet(mapping, DumpsRelation(input), [node EXCEPT !.input = input])]
        ELSE find_base_relations(node.input, mapping)
    ELSE IF node.type = "base_relation" THEN
        [raised |-> FALSE,
         mapping |-> DictSet(mapping, DumpsRelation(StripAlias(node)), StripAlias(node))]
    ELSE IF node.type = "join" THEN
        LET left == find_base_relations(node.left, mapping)
        IN  IF left.raised THEN left ELSE find_base_relations(node.right, left.mapping)
    ELSE IF HasField(node, "input") THEN find_base_relations(node.input, mapping)
    ELSE [raised |-> TRUE, mapping |-> mapping]

\* lines 47-58 and 62-73: a base relation child of a join loses cost and alias
\* and is replaced by a copy of its mapping entry when there is one
SubstituteRelation(child, mapping) ==
    LET stripped == StripAlias(DelField(child, "cost"))
    IN  DictGet(mapping, DumpsRelation(stripped), stripped)

\* update_join_nodes (lines 41-76): the left child of a join is descended into
\* when it is not a base relation, the right child is not; a node that is not
\* a join is followed through "input" (KeyError when it has none)
RECURSIVE update_join_nodes(_, _)
update_join_nodes(node, mapping) ==
    IF node.type = "join" THEN
        LET left == IF node.left.type = "base_relation"
                    THEN [raised |-> FALSE, node |-> SubstituteRelation(node.left, mapping)]
                    ELSE update_join_nodes(node.left, mapping)
            right == IF node.right.type = "base_relation"
                     THEN SubstituteRelation(node.right, mapping)
                     ELSE node.right
        IN  IF left.raised THEN [raised |-> TRUE, node |-> [node EXCEPT !.left = left.node]]
            ELSE [raised |-> FALSE, node |-> [node EXCEPT !.left = left.node, !.right = right]]
    ELSE IF HasField(node, "input") THEN
        LET input == update_join_nodes(node.input, mapping)
        IN  [raised |-> input.raised, node |-> [node EXCEPT !.input = input.node]]
    ELSE [raised |-> TRUE, node |-> node]

\* --- the plans tried ---

\* the largest number of selects stacked on one base relation
MaxStack == 2

AsTables == <<"a", "b", "c">>

\* how the base relations of a plan are written: bare, with an alias, with a cost
RelationStyles == {"bare", "alias", "cost"}

AsRelation(t, style) ==
    IF style = "alias" THEN [type |-> "base_relation", tables |-> <<[name |-> t, alias |-> t \o "1"]>>]
    ELSE IF style = "cost" THEN [type |-> "base_relation", tables |-> <<[name |-> t]>>, cost |-> 10]
    ELSE [type |-> "base_relation", tables |-> <<[name |-> t]>>]

AsCondition(t, k) == CcCompare(IF k = 1 THEN "EQ" ELSE IF k = 2 THEN "GT" ELSE "LT", t)

\* k selects stacked on the relation, the k-th on top
RECURSIVE Filtered(_, _, _)
Filtered(t, style, k) ==
    IF k = 0 THEN AsRelation(t, style)
    ELSE CcSelect(AsCondition(t, k), Filtered(t, style, k - 1))

\* the pushed-down plans: a projection of a left-deep join of the three
\* relations, each under 0..MaxStack selects
OriginalPlans ==
    { CcProject(CcJoin(CcJoin(Filtered("a", s, k[1]), Filtered("b", s, k[2])),
                       Filtered("c", s, k[3])))
        : s \in RelationStyles, k \in [1..3 -> 0..MaxStack] }

AsOrders == { <<"a", "b", "c">>, <<"c", "a", "b">> }

\* the reordered plans: left-deep or right-deep joins of the base relations,
\* with or without a projection on top
JoinedPlans ==
    LET LeftDeep(o, s) == CcJoin(CcJoin(AsRelation(o[1], s), AsRelation(o[2], s)), AsRelation(o[3], s))
        RightDeep(o, s) == CcJoin(AsRelation(o[1], s), CcJoin(AsRelation(o[2], s), AsRelation(o[3], s)))
        Shapes == { LeftDeep(o, s) : o \in AsOrders, s \in RelationStyles }
                  \cup { RightDeep(o, s) : o \in AsOrders, s \in RelationStyles }
    IN  Shapes \cup { CcProject(p) : p \in Shapes }

Init_as ==
    /\ as_pc = "start"
    /\ as_original \in OriginalPlans
    /\ as_joined \in JoinedPlans
    /\ as_mapping = EmptyDict
    /\ as_result = None
    /\ IdleNotAs

\* line 37: find_base_relations(original_json)
FindBaseRelations ==
    /\ as_pc = "start"
    /\ LET found == find_base_relations(as_original, EmptyDict)
       IN  /\ as_mapping' = found.mapping
           /\ IF found.raised
              THEN as_pc' = "done" /\ as_result' = [raised |-> TRUE, node |-> NoneObject]
              ELSE as_pc' = "mapped" /\ as_result' = as_result
    /\ UNCHANGED <<as_original, as_joined, notAs>>

\* lines 79-81: update_join_nodes(joined_json); return joined_json
UpdateJoinNodes ==
    /\ as_pc = "mapped"
    /\ as_result' = update_join_nodes(as_joined, as_mapping)
    /\ as_pc' = "done"
    /\ UNCHANGED <<as_original, as_joined, as_mapping, notAs>>

Next_as == FindBaseRelations \/ UpdateJoinNodes

SpecMerge == Init_as /\ [][Next_as]_vars

\* --- properties of the merged plan ---

\* the conditions of the selects stacked directly on the base relation named
\* t, outermost first, one sequence per occurrence of the relation
RECURSIVE StacksOf(_, _, _)
StacksOf(node, t, above) ==
    IF node.type = "base_relation" THEN
        IF node.tables[1].name = t THEN {above} ELSE {}
    ELSE IF node.type = "select" THEN StacksOf(node.input, t, Append(above, node.condition))
    ELSE IF node.type = "join" THEN StacksOf(node.left, t, <<>>) \cup StacksOf(node.right, t, <<>>)
    ELSE StacksOf(node.input, t, <<>>)

\* the joins of a plan over its tables, selects and projections left out
RECURSIVE JoinShape(_)
JoinShape(node) ==
    IF node.type = "base_relation" THEN <<node.tables[1].name>>
    ELSE IF node.type = "join" THEN <<"join", JoinShape(node.left), JoinShape(node.right)>>
    ELSE JoinShape(node.input)

\* the base relation nodes named t of a plan, with all their fields
RECURSIVE RelationNodes(_, _)
RelationNodes(node, t) ==
    IF node.type = "base_relation" THEN
        IF node.tables[1].name = t THEN {node} ELSE {}
    ELSE IF node.type = "join" THEN RelationNodes(node.left, t) \cup RelationNodes(node.right, t)
    ELSE RelationNodes(node.input, t)

AsTableSet == { AsTables[i] : i \in 1..Len(AsTables) }

Merged == as_pc = "done" /\ ~as_result.raised

\* C14: add_selects returns the join shape of the reordered plan, and every
\* base relation of it that the pushed-down plan filters carries all the
\* selects the pushed-down plan stacks on that relation, at any depth and on
\* either side of a join.
C14_AllFiltersReattached ==
    as_pc = "done" =>
        /\ ~as_result.raised
        /\ JoinShape(as_result.node) = JoinShape(as_joined)
        /\ \A t \in AsTableSet :
              StacksOf(as_result.node, t, <<>>) = StacksOf(as_original, t, <<>>)

\* the part of C14 the code keeps: the join shape is the reordered plan's
C14_ShapeKept ==
    as_pc = "done" => ~as_result.raised /\ JoinShape(as_result.node) = JoinShape(as_joined)

\* a relation under two stacked selects in the pushed-down plan has been merged
C14_StackedMerged ==
    /\ Merged
    /\ \E t \in AsTableSet : \E s \in StacksOf(as_original, t, <<>>) : Len(s) = 2

\* C15: a base relation of the joined plan that the original plan never
\* filters is, in the result, the node of the joined plan with all its fields.
C15_UnfilteredUnmodified ==
    Merged =>
        \A t \in AsTableSet :
            StacksOf(as_original, t, <<>>) = {<<>>} =>
                RelationNodes(as_result.node, t) = RelationNodes(as_joined, t)

\* what the code does keep of an unfiltered relation: its type and its
\* tables with their names
C15_UnfilteredKeepsName ==
    Merged =>
        \A t \in AsTableSet :
            StacksOf(as_original, t, <<>>) = {<<>>} =>
                /\ StacksOf(as_result.node, t, <<>>) = {<<>>}
                /\ \A n \in RelationNodes(as_result.node, t) : n.tables[1].name = t

\* ---------------------------------------------------------------------------
\* Web orchestrator: the route handlers of src/web_interface/app.py
\* ---------------------------------------------------------------------------

\* Python values that the handlers mix: a float cost and the (cost, size)
\* tuple that calculate_cost returns
PyFloat(f) == [float |-> f]

PyTuple(a, b) == [tuple |-> <<a, b>>]

IsFloat(v) == HasField(v, "float")

\* `not original_cost` is false for a non-zero float and a non-empty tuple
Truthy(v) == IF v = NoneObject THEN FALSE
             ELSE IF IsFloat(v) THEN v.float[1] # 0 ELSE TRUE

\* what a handler hands back: jsonify(body), or an exception no except
\* clause of the handler catches
Response(route, body) == [route |-> route, escaped |-> FALSE, body |-> body]

Escaped(route, exception) ==
    [route |-> route, escaped |-> TRUE, body |-> [exception |-> exception]]

Failure(prefix, exception) == [success |-> FALSE, error |-> prefix \o exception]

\* a handler that leaves the file behind
KeepFile(files, name) == files

\* os.unlink(temp_file_name)
unlink(files, name) == files \ {name}

\* the plans of the pipeline, by the query they belong to and the stage
\* that produced them
StagePlan(query, stage) == [query |-> query, stage |-> stage]

Queries == {"q1", "q2"}

\* whether the plan of the query has a repeated subtree that
\* optimize_and_cleanup extracts
HasRepeats(query) == query = "q1"

EmptyPlan == [empty |-> TRUE]

\* request.json.get('relational_algebra', {})
RequestPlans == { StagePlan(q, "parsed") : q \in Queries } \cup {EmptyPlan}

\* optimize_query_plan (src/predicate_pushdown_trial.py 584-619): the result
\* dict, or None when anything inside raised
optimize_query_plan(plan) ==
    IF plan = EmptyPlan THEN NoneObject
    ELSE [optimized_plan_json |-> StagePlan(plan.query, "pred"),
          original_plan_str |-> "original", optimized_plan_str |-> "optimized"]

\* the costs the cost functions can return for a plan, and "raise" for a
\* failure inside them (no connection, a node they do not know)
RaiseOutcome == [raise |-> TRUE]

PlanCostValues == { Num(0), Num(100) }

SubseqCostValues == { Num(60) }

ScaleValues == { Num(1), Frac(4, 5) }

\* QueryOptimizer.get_costs_and_plans: naive cost, then the best plan with
\* its cost, returned together with a scale factor
get_costs_and_plans(plan, scale) ==
    [naive_plan |-> plan, best_plan |-> StagePlan(plan.query, "join"),
     naive_cost |-> PyFloat(Num(100)), best_cost |-> PyFloat(Num(80)),
     scale |-> scale]

\* QueryTreeOptimizer.optimize_and_cleanup, for the plans above
CseTree(plan) ==
    [query |-> plan.query, stage |-> "cse", input |-> plan.stage,
     common_expressions |-> IF HasRepeats(plan.query) THEN 1 ELSE 0]

\* outcomes of ../final_parser/sql_to_ra run by subprocess.run(check=True)
CompilerOutcomes == {"json", "malformed", "failed", "not_started"}

TempFileNames == {"tmp1", "tmp2"}

\* temp_file_name while it is not bound
NoTempFile == ""

SqlTexts == {"", "SELECT"}

Serving(route, pc) ==
    app_pc = pc /\ app_req # NoneObject /\ app_req.route = route

Respond(resp) == app_resp' = resp /\ app_pc' = "responded"

\* line 26: USER_STUFF = {"scale": 1.0}
Init_app ==
    /\ app_pc = "ready"
    /\ app_user = [k \in {"scale"} |-> Num(1)]
    /\ app_before = NoneObject
    /\ app_pushed = NoneObject
    /\ app_req = NoneObject
    /\ app_tmp = NoTempFile
    /\ app_files = {}
    /\ app_resp = NoneObject
    /\ IdleNotApp

\* a request arrives
ParseRequest ==
    /\ app_pc = "ready"
    /\ \E sql \in SqlTexts : app_req' = [route |-> "/parse", sql_query |-> sql]
    /\ app_pc' = "parse"
    /\ app_before' = app_user
    /\ UNCHANGED <<app_user, app_tmp, app_files, app_resp, app_pushed, notApp>>

PlanRequest ==
    /\ app_pc = "ready"
    /\ \E route \in {"/optimize/pred_push/", "/optimize/join/", "/optimize/common_subexpr/"} :
       \E plan \in RequestPlans :
          app_req' = [route |-> route, relational_algebra |-> plan]
    /\ app_pc' = "handle"
    /\ app_before' = app_user
    /\ UNCHANGED <<app_user, app_tmp, app_files, app_resp, app_pushed, notApp>>

\* parse_sql, lines 34-39. `USER_STUFF = {}` on line 36 binds a local name:
\* the module-level dict keeps its entries.
ParseEmpty ==
    /\ Serving("/parse", "parse")
    /\ app_req.sql_query = ""
    /\ Respond(Response("/parse", [error |-> "Empty SQL query"]))
    /\ UNCHANGED <<app_user, app_req, app_tmp, app_files, app_before, app_pushed, notApp>>

\* lines 42-44: the temporary file is created and written
ParseCreateFile ==
    /\ Serving("/parse", "parse")
    /\ app_req.sql_query # ""
    /\ \E name \in TempFileNames \ app_files :
          app_tmp' = name /\ app_files' = app_files \cup {name}
    /\ app_pc' = "compile"
    /\ UNCHANGED <<app_user, app_req, app_resp, app_before, app_pushed, notApp>>

\* lines 46-77: the compiler run, the three returns, and the finally clause.
\* An OSError of subprocess.run (the executable cannot be started) matches no
\* except clause.
ParseCompile ==
    /\ Serving("/parse", "compile")
    /\ \E outcome \in CompilerOutcomes :
          Respond(IF outcome = "json"
                  THEN Response("/parse", [success |-> TRUE, result |-> "output_json"])
                  ELSE IF outcome = "malformed"
                  THEN Response("/parse", [success |-> FALSE,
                                           error |-> "Failed to parse JSON output",
                                           raw_output |-> "stdout"])
                  ELSE IF outcome = "failed"
                  THEN Response("/parse", [success |-> FALSE,
                                           error |-> "Parser execution failed: CalledProcessError",
                                           stderr |-> "stderr"])
                  ELSE Escaped("/parse", "FileNotFoundError"))
    /\ app_files' = unlink(app_files, app_tmp)
    /\ UNCHANGED <<app_user, app_req, app_tmp, app_before, app_pushed, notApp>>

\* USER_STUFF[key]: the value and no exception, or KeyError(key)
Lookup(user, key) ==
    IF key \in DOMAIN user THEN [raised |-> FALSE, value |-> user[key]]
    ELSE [raised |-> TRUE, value |-> "'" \o key \o "'"]

CostOutcomes == { PyFloat(c) : c \in PlanCostValues } \cup {RaiseOutcome}

JoinOutcomes == { [scale |-> s] : s \in ScaleValues } \cup {RaiseOutcome}

CseOutcomes ==
    { [plan_cost |-> c, subseq_cost |-> s] : c \in PlanCostValues, s \in SubseqCostValues }
    \cup {RaiseOutcome}

\* optimize_predpush, lines 83-97: the pushdown and the first two writes.
\* A result of None raises TypeError on line 88.
PredPushOptimize ==
    /\ Serving("/optimize/pred_push/", "handle")
    /\ LET relational_algebra == app_req.relational_algebra
           result == optimize_query_plan(relational_algebra)
       IN  IF result = NoneObject
           THEN /\ Respond(Response(app_req.route,
                               Failure("Optimization failed: ",
                                       "'NoneType' object is not subscriptable")))
                /\ app_user' = app_user
           ELSE /\ app_user' = DictSet(DictSet(app_user, "original_plan_json", relational_algebra),
                                       "pred_plan_json", result.optimized_plan_json)
                /\ app_pc' = "cost"
                /\ app_resp' = app_resp
    /\ UNCHANGED <<app_req, app_tmp, app_files, app_before, app_pushed, notApp>>

\* lines 98-116: the cost of the pushed-down plan, the third write, the answer
PredPushCost ==
    /\ Serving("/optimize/pred_push/", "cost")
    /\ \E outcome \in CostOutcomes :
          IF outcome = RaiseOutcome
          THEN /\ Respond(Response(app_req.route,
                              Failure("Optimization failed: ", "calculate_cost")))
               /\ app_user' = app_user
               /\ app_pushed' = app_pushed
          ELSE /\ app_user' = DictSet(app_user, "pred_cost", outcome)
               /\ app_pushed' = app_req.relational_algebra
               /\ Respond(Response(app_req.route,
                              [success |-> TRUE,
                               original_plan_json |-> app_req.relational_algebra,
                               optimized_plan_json |-> app_user["pred_plan_json"],
                               original_plan_str |-> "original",
                               optimized_plan_str |-> "optimized"]))
    /\ UNCHANGED <<app_req, app_tmp, app_files, app_before, notApp>>

\* optimize_join, lines 122-159. The plan of the request body is read on line
\* 124 and not used; the plan optimized is USER_STUFF["pred_plan_json"].
OptimizeJoin ==
    /\ Serving("/optimize/join/", "handle")
    /\ \E outcome \in JoinOutcomes :
          LET pred == Lookup(app_user, "pred_plan_json")
          IN  IF outcome = RaiseOutcome
              THEN /\ Respond(Response(app_req.route,
                                  Failure("Join optimization failed: ", "QueryOptimizer")))
                   /\ app_user' = app_user
              ELSE IF pred.raised
              THEN /\ Respond(Response(app_req.route,
                                  Failure("Join optimization failed: ", pred.value)))
                   /\ app_user' = app_user
              ELSE LET res == get_costs_and_plans(pred.value, outcome.scale)
                   IN  /\ app_user' =
                             DictSet(DictSet(DictSet(DictSet(app_user,
                                 "join_plan_json", res.best_plan),
                                 "join_cost", res.best_cost),
                                 "pred_cost", res.naive_cost),
                                 "scale", res.scale)
                       /\ Respond(Response(app_req.route,
                                      [success |-> TRUE,
                                       original_plan_json |-> res.naive_plan,
                                       optimized_plan_json |-> res.best_plan,
                                       original_cost |-> res.naive_cost,
                                       optimized_cost |-> res.best_cost]))
    /\ UNCHANGED <<app_req, app_tmp, app_files, app_before, app_pushed, notApp>>

\* optimize_common_subexpr, lines 165-214, as a function of USER_STUFF and of
\* what the cost functions return: the body of the answer and USER_STUFF
\* after it
CommonSubexpr(user, outcome) ==
    LET prefix == "Common subexpression elimination failed: "
        Failed(exception) == [body |-> Failure(prefix, exception), user |-> user]
        has_pred == "pred_plan_json" \in DOMAIN user
        plan == Lookup(user, IF has_pred THEN "pred_plan_json" ELSE "original_plan_json")
        stored_cost == IF has_pred THEN Lookup(user, "pred_cost")
                       ELSE [raised |-> FALSE, value |-> NoneObject]
    IN  IF plan.raised THEN Failed(plan.value)
        ELSE IF stored_cost.raised THEN Failed(stored_cost.value)
        ELSE IF outcome = RaiseOutcome THEN Failed("external")
        ELSE
        LET relational_algebra == plan.value
            optimize_input_json == IF "join_plan_json" \in DOMAIN user
                                   THEN user["join_plan_json"] ELSE relational_algebra
            optimized_tree == CseTree(optimize_input_json)
            \* lines 189-190: the whole (cost, size) pair is kept
            original_cost == IF Truthy(stored_cost.value) THEN stored_cost.value
                             ELSE PyTuple(outcome.plan_cost, Num(1))
            \* lines 193-197
            optimized_cost == IF optimized_tree.common_expressions = 0 THEN original_cost
                              ELSE PyFloat(outcome.subseq_cost)
        IN  \* line 200: a tuple times a float is a TypeError
            IF ~IsFloat(optimized_cost)
            THEN Failed("can't multiply sequence by non-int of type 'float'")
            ELSE LET scaled == PyFloat(FMul(optimized_cost.float, user["scale"]))
                 IN  [body |-> [success |-> TRUE,
                                original_plan_json |-> relational_algebra,
                                optimized_plan_json |-> optimized_tree,
                                optimized_plan_svg |-> "svg",
                                original_plan_svg |-> "svg",
                                original_cost |-> original_cost,
                                optimized_cost |-> scaled],
                      user |-> DictSet(DictSet(user, "subseq_plan_json", optimized_tree),
                                       "subseq_cost", scaled)]

OptimizeCommonSubexpr ==
    /\ Serving("/optimize/common_subexpr/", "handle")
    /\ \E outcome \in CseOutcomes :
          LET done == CommonSubexpr(app_user, outcome)
          IN  /\ app_user' = done.user
              /\ Respond(Response(app_req.route, done.body))
    /\ UNCHANGED <<app_req, app_tmp, app_files, app_before, app_pushed, notApp>>

\* the response is sent; the next request can be served
EndRequest ==
    /\ app_pc = "responded"
    /\ app_pc' = "ready"
    /\ app_req' = NoneObject
    /\ app_tmp' = NoTempFile
    /\ app_before' = NoneObject
    /\ UNCHANGED <<app_user, app_files, app_resp, app_pushed, notApp>>

Next_app ==
    \/ ParseRequest \/ PlanRequest
    \/ ParseEmpty \/ ParseCreateFile \/ ParseCompile
    \/ PredPushOptimize \/ PredPushCost
    \/ OptimizeJoin \/ OptimizeCommonSubexpr
    \/ EndRequest

SpecApp == Init_app /\ [][Next_app]_vars

\* --- properties of the responses ---

Answered(route) == app_pc = "responded" /\ app_resp.route = route

Succeeded == ~app_resp.escaped /\ HasField(app_resp.body, "success") /\ app_resp.body.success

StructuredFailure ==
    /\ ~app_resp.escaped
    /\ HasField(app_resp.body, "success") /\ ~app_resp.body.success
    /\ HasField(app_resp.body, "error")

\* C16: a response of any of the four routes that reports a failure is
\* {success: false, error: message}, and no failure leaves a handler as an
\* exception; an empty SQL text and a compiler that cannot be started included.
C16_FailuresStructured ==
    app_pc = "responded" => (Succeeded \/ StructuredFailure)

\* the three /optimize routes do answer every failure that way
C16_OptimizeFailuresStructured ==
    (app_pc = "responded" /\ app_resp.route # "/parse") => (Succeeded \/ StructuredFailure)

\* C17: /optimize/join/ optimizes the stored pushed-down plan when there is
\* one, and the plan of the request body when there is none: the missing
\* entry is not what makes the request fail.
C17_StoredPlanOrFallback ==
    Answered("/optimize/join/") =>
        LET stored == "pred_plan_json" \in DOMAIN app_user
        IN  /\ Succeeded =>
                 app_resp.body.original_plan_json =
                    (IF stored THEN app_user["pred_plan_json"] ELSE app_req.relational_algebra)
            /\ (~stored /\ ~Succeeded) =>
                 app_resp.body.error # "Join optimization failed: 'pred_plan_json'"

\* with a stored pushed-down plan, that plan is the one optimized
C17_StoredPlanUsed ==
    (Answered("/optimize/join/") /\ Succeeded) =>
        /\ "pred_plan_json" \in DOMAIN app_user
        /\ app_resp.body.original_plan_json = app_user["pred_plan_json"]

\* C18: when the CSE pass finds no common expressions, optimized_cost of the
\* response equals its original_cost, whatever scale factor is stored.
C18_NoCommonSameCost ==
    (Answered("/optimize/common_subexpr/") /\ Succeeded
        /\ app_resp.body.optimized_plan_json.common_expressions = 0) =>
        app_resp.body.optimized_cost = app_resp.body.original_cost

\* with the scale factor 1.0 the two costs are equal
C18_NoCommonSameCostUnscaled ==
    (Answered("/optimize/common_subexpr/") /\ Succeeded
        /\ app_resp.body.optimized_plan_json.common_expressions = 0
        /\ app_user["scale"] = Num(1)) =>
        app_resp.body.optimized_cost = app_resp.body.original_cost

\* C19: once /parse has answered, the temporary file it created is gone,
\* whether the compiler gave JSON, gave malformed output or failed; no
\* temporary file is left between requests.
C19_TempFileDeleted ==
    /\ (Answered("/parse") /\ app_tmp # NoTempFile) => app_tmp \notin app_files
    /\ app_pc \in {"ready", "responded"} => app_files = {}

\* /parse has created its file and answered that the compiler failed
C19_Witness ==
    /\ Answered("/parse") /\ app_tmp # NoTempFile
    /\ ~app_resp.escaped /\ HasField(app_resp.body, "stderr")
    /\ app_files = {}

\* ---------------------------------------------------------------------------
\* Condition codec: format_condition_from_json / parse_condition_to_json
\* (src/predicate_pushdown_trial.py). Strings are sequences of characters.
\* ---------------------------------------------------------------------------

\* s.startswith(p), s.endswith(p)
StartsWith(s, p) == Len(s) >= Len(p) /\ SubSeq(s, 1, Len(p)) = p

EndsWith(s, p) == Len(s) >= Len(p) /\ SubSeq(s, Len(s) - Len(p) + 1, Len(s)) = p

\* s.find(sep): the 1-based position of the first occurrence (sep in s)
FirstAt(s, sep) ==
    CHOOSE i \in 1..(Len(s) - Len(sep) + 1) :
        /\ SubSeq(s, i, i + Len(sep) - 1) = sep
        /\ \A j \in 1..(i - 1) : SubSeq(s, j, j + Len(sep) - 1) # sep

\* s.split(sep, 1) for sep in s: the text before and after the first sep
SplitOnce(s, sep) ==
    LET i == FirstAt(s, sep)
    IN  <<SubSeq(s, 1, i - 1), SubSeq(s, i + Len(sep), Len(s))>>

\* s.split('.'): all the parts
RECURSIVE SplitAll(_, _)
SplitAll(s, sep) ==
    IF StrContains(s, sep)
    THEN <<SplitOnce(s, sep)[1]>> \o SplitAll(SplitOnce(s, sep)[2], sep)
    ELSE <<s>>

\* sep.join(parts)
RECURSIVE JoinWith(_, _)
JoinWith(parts, sep) ==
    IF Len(parts) = 1 THEN parts[1]
    ELSE parts[1] \o sep \o JoinWith(Tail(parts), sep)

DigitChars == <<"0", "1", "2", "3", "4", "5", "6", "7", "8", "9">>

\* s.isdigit()
IsDigit(s) == s # <<>> /\ \A i \in DOMAIN s : s[i] \in Range(DigitChars)

\* str(n) of an int
RECURSIVE NatToStr(_)
NatToStr(n) ==
    IF n < 10 THEN <<DigitChars[n + 1]>>
    ELSE NatToStr(n \div 10) \o <<DigitChars[(n % 10) + 1]>>

IntToStr(n) == IF n < 0 THEN <<"-">> \o NatToStr(0 - n) ELSE NatToStr(n)

\* int(s) of a string of digits
RECURSIVE StrToInt(_)
StrToInt(s) ==
    LET d == CHOOSE k \in 0..9 : DigitChars[k + 1] = s[Len(s)]
    IN  IF Len(s) = 1 THEN d ELSE 10 * StrToInt(SubSeq(s, 1, Len(s) - 1)) + d

\* a Python str where the code returns one in place of a dict
PyStr(s) == [str |-> s]

\* str() of a dict that is no condition or operand the codec knows
ReprOfDict == <<"{", ".", ".", ".", "}">>

\* op_map, lines 112-122
op_map ==
    [EQ |-> <<"=">>, LT |-> <<"<">>, GT |-> <<">">>, LE |-> <<"<", "=">>,
     GE |-> <<">", "=">>, NE |-> <<"<", ">">>,
     AND |-> <<"A", "N", "D">>, OR |-> <<"O", "R">>, NOT |-> <<"N", "O", "T">>]

\* format_operand, lines 144-181. A float value is kept as its repr, the
\* text str() gives for it.
format_operand(operand) ==
    IF HasField(operand, "type") /\ operand.type = "column" THEN
        IF operand.table # <<>> THEN operand.table \o <<".">> \o operand.attr
        ELSE operand.attr
    ELSE IF HasField(operand, "type") /\ operand.type = "int" THEN IntToStr(operand.value)
    ELSE IF HasField(operand, "type") /\ operand.type = "float" THEN operand.value
    ELSE IF HasField(operand, "type") /\ operand.type = "string"
    THEN <<"'">> \o operand.value \o <<"'">>
    ELSE IF HasField(operand, "table") /\ HasField(operand, "attr")
    THEN operand.table \o <<".">> \o operand.attr
    ELSE ReprOfDict

\* format_condition_from_json, lines 102-142
RECURSIVE format_condition_from_json(_)
format_condition_from_json(condition) ==
    IF ~HasField(condition, "type") THEN ReprOfDict
    ELSE IF condition.type \in {"AND", "OR"} THEN
        <<"(">> \o format_condition_from_json(condition.left) \o <<")", " ">>
        \o op_map[condition.type]
        \o <<" ", "(">> \o format_condition_from_json(condition.right) \o <<")">>
    ELSE IF condition.type = "NOT" THEN
        <<"N", "O", "T", " ", "(">>
        \o (IF HasField(condition, "cond") THEN format_condition_from_json(condition.cond)
            ELSE <<"{", "}">>)
        \o <<")">>
    ELSE IF condition.type \in DOMAIN op_map THEN
        format_operand(condition.left) \o <<" ">> \o op_map[condition.type] \o <<" ">>
        \o format_operand(condition.right)
    ELSE ReprOfDict

\* str.replace('.', '', 1)
WithoutFirstDot(s) ==
    IF StrContains(s, <<".">>) THEN SplitOnce(s, <<".">>)[1] \o SplitOnce(s, <<".">>)[2] ELSE s

\* parse_operand_to_json, lines 553-581: a text with a '.' is a column
\* reference before it can be a number
parse_operand_to_json(operand_str) ==
    IF StrContains(operand_str, <<".">>) THEN
        LET parts == SplitAll(operand_str, <<".">>)
        IN  [table |-> parts[1], attr |-> JoinWith(Tail(parts), <<".">>)]
    ELSE IF StartsWith(operand_str, <<"'">>) /\ EndsWith(operand_str, <<"'">>)
    THEN [type |-> "string", value |-> Slice(operand_str, 1, Len(operand_str) - 1)]
    ELSE IF IsDigit(operand_str) THEN [type |-> "int", value |-> StrToInt(operand_str)]
    ELSE IF IsDigit(WithoutFirstDot(operand_str)) THEN [type |-> "float", value |-> operand_str]
    ELSE PyStr(operand_str)

\* lines 541-542: the operators in the order they are looked for
ComparisonOperators ==
    << <<<<"=">>, "EQ">>, <<<<"<">>, "LT">>, <<<<">">>, "GT">>,
       <<<<"<", "=">>, "LE">>, <<<<">", "=">>, "GE">>, <<<<"<", ">">>, "NE">> >>

\* lines 541-547: the first operator of the list that occurs in the text
RECURSIVE ParseComparison(_, _)
ParseComparison(condition_str, i) ==
    IF i > Len(ComparisonOperators) THEN PyStr(condition_str)
    ELSE IF StrContains(condition_str, ComparisonOperators[i][1]) THEN
        LET halves == SplitOnce(condition_str, ComparisonOperators[i][1])
        IN  [type |-> ComparisonOperators[i][2],
             left |-> parse_operand_to_json(Strip(halves[1])),
             right |-> parse_operand_to_json(Strip(halves[2]))]
    ELSE ParseComparison(condition_str, i + 1)

\* lines 513-516 and 534-535: an opening and a closing parenthesis at the two
\* ends are removed, whether or not they match each other
StripParens(s) ==
    IF StartsWith(s, <<"(">>) /\ EndsWith(s, <<")">>)
    THEN Strip(Slice(s, 1, Len(s) - 1)) ELSE s

\* parse_condition_to_json, lines 508-551
RECURSIVE parse_condition_to_json(_)
parse_condition_to_json(text) ==
    LET condition_str == StripParens(Strip(text))
    IN  IF StrContains(condition_str, AndWord) THEN
            [type |-> "AND",
             left |-> parse_condition_to_json(SplitOnce(condition_str, AndWord)[1]),
             right |-> parse_condition_to_json(SplitOnce(condition_str, AndWord)[2])]
        ELSE IF StrContains(condition_str, OrWord) THEN
            [type |-> "OR",
             left |-> parse_condition_to_json(SplitOnce(condition_str, OrWord)[1]),
             right |-> parse_condition_to_json(SplitOnce(condition_str, OrWord)[2])]
        ELSE IF StartsWith(condition_str, <<"N", "O", "T", " ">>) THEN
            [type |-> "NOT",
             cond |-> parse_condition_to_json(
                          StripParens(Strip(Slice(condition_str, 4, Len(condition_str)))))]
        ELSE ParseComparison(condition_str, 1)

\* --- the conditions tried ---

TypedColumn(table, attr) == [type |-> "column", table |-> <<table>>, attr |-> <<attr>>]

\* a column reference without explicit type (format_operand, lines 163-167)
BareColumn(table, attr) == [table |-> <<table>>, attr |-> <<attr>>]

IntLiteral(n) == [type |-> "int", value |-> n]

FloatLiteral(repr) == [type |-> "float", value |-> repr]

StringLiteral(s) == [type |-> "string", value |-> s]

LeftOperands == { TypedColumn("a", "x"), BareColumn("a", "x") }

RightOperands ==
    { TypedColumn("b", "x"), BareColumn("b", "x"), IntLiteral(1), IntLiteral(42),
      FloatLiteral(<<"1", ".", "5">>), StringLiteral(<<"N", "Y">>) }

ComparisonTypes == {"EQ", "LT", "GT", "LE", "GE", "NE"}

Comparisons ==
    { [type |-> op, left |-> l, right |-> r]
        : op \in ComparisonTypes, l \in LeftOperands, r \in RightOperands }

\* the comparisons put under AND and OR
Conjoined ==
    { [type |-> "EQ", left |-> BareColumn("a", "x"), right |-> IntLiteral(1)],
      [type |-> "GT", left |-> TypedColumn("a", "x"), right |-> StringLiteral(<<"N", "Y">>)],
      [type |-> "LE", left |-> BareColumn("a", "x"), right |-> BareColumn("b", "x")] }

CodecConditions ==
    Comparisons
    \cup { [type |-> "NOT", cond |-> c] : c \in Comparisons }
    \cup { [type |-> op, left |-> l, right |-> r]
             : op \in {"AND", "OR"}, l \in Conjoined, r \in Conjoined }

Init_cd ==
    /\ cd_pc = "start"
    /\ cd_condition \in CodecConditions
    /\ cd_text = <<>>
    /\ cd_parsed = None
    /\ IdleNotCd

\* the plan is built: the condition becomes the predicate string
FormatCondition ==
    /\ cd_pc = "start"
    /\ cd_text' = format_condition_from_json(cd_condition)
    /\ cd_pc' = "formatted"
    /\ UNCHANGED <<cd_condition, cd_parsed, notCd>>

\* logical_plan_to_json: the predicate string becomes a condition again
ParseCondition ==
    /\ cd_pc = "formatted"
    /\ cd_parsed' = parse_condition_to_json(cd_text)
    /\ cd_pc' = "done"
    /\ UNCHANGED <<cd_condition, cd_text, notCd>>

Next_cd == FormatCondition \/ ParseCondition

SpecCodec == Init_cd /\ [][Next_cd]_vars

\* --- round trip ---

IsColumn(x) == HasField(x, "table") /\ HasField(x, "attr")

\* the same operand: a column reference with the same table and attribute
\* (written with or without "type": "column"), or the same literal
SameOperand(x, y) ==
    IF IsColumn(x) THEN IsColumn(y) /\ x.table = y.table /\ x.attr = y.attr
    ELSE /\ ~IsColumn(y)
         /\ HasField(y, "type") /\ x.type = y.type
         /\ x.value = y.value

RECURSIVE SameCondition(_, _)
SameCondition(c, p) ==
    /\ HasField(p, "type")
    /\ c.type = p.type
    /\ IF c.type \in {"AND", "OR"}
       THEN SameCondition(c.left, p.left) /\ SameCondition(c.right, p.right)
       ELSE IF c.type = "NOT" THEN SameCondition(c.cond, p.cond)
       ELSE SameOperand(c.left, p.left) /\ SameOperand(c.right, p.right)

\* C20: parse_condition_to_json(format_condition_from_json(c)) has the type
\* and the operands of c, for every comparison with one of the six operators
\* between a column and a column, int, float or string literal, and for an
\* AND, OR or NOT over such comparisons.
C20_CodecRoundTrip ==
    cd_pc = "done" => SameCondition(cd_condition, cd_parsed)

PlainComparison(c) ==
    /\ c.type \in {"EQ", "LT", "GT"}
    /\ ~(HasField(c.right, "type") /\ c.right.type = "float")

\* the conditions that do come back: EQ, LT and GT without a float literal,
\* bare or under one NOT
C20_PlainRoundTrip ==
    (cd_pc = "done"
        /\ \/ PlainComparison(cd_condition)
           \/ cd_condition.type = "NOT" /\ PlainComparison(cd_condition.cond)) =>
        SameCondition(cd_condition, cd_parsed)

\* ---------------------------------------------------------------------------
\* calculate_cost on a whole plan (app.py line 99: the pushed-down plan is
\* annotated in place)
\* ---------------------------------------------------------------------------

CcSubquery(q) == [type |-> "subquery", alias |-> "s", query |-> q]

\* condition types of the RA-JSON: the three of the lookup and others
ConditionTypes == {"EQ", "GT", "LT", "NE", "LE", "AND", "OR"}

MappedTypes == {"GT", "LT", "EQ"}

AnLeaves == { CcBase("a"), CcBase("b") }

AnSelects(inputs) == { CcSelect([type |-> op], in) : op \in ConditionTypes, in \in inputs }

\* the inputs a project stands on: a base relation, a select, a join, a subquery
ProjectInputs ==
    AnLeaves
    \cup AnSelects(AnLeaves)
    \cup { CcJoin(CcBase("a"), CcBase("b")),
           CcJoin(CcSelect([type |-> "EQ"], CcBase("a")), CcBase("b")) }
    \cup { CcSubquery(q) : q \in AnLeaves \cup { CcSelect([type |-> "GT"], CcBase("a")) } }

\* plans with the project on top, under a join, and under a select
AnPlans ==
    ProjectInputs
    \cup { CcProject(in) : in \in ProjectInputs }
    \cup { CcJoin(CcProject(in), CcBase("b")) : in \in ProjectInputs }
    \cup { CcSelect([type |-> "NE"], CcProject(in)) : in \in AnLeaves }

Init_an ==
    /\ cc_pc = "plan"
    /\ \E q \in AnPlans, stats \in StatsProfiles :
          cc_doc = [query |-> q, common_expressions |-> <<>>, stats |-> stats]
    /\ cc_i = 0
    /\ cc_exprs = <<>>
    /\ cc_expr_occ = <<>>
    /\ cc_cost = NoneObject
    /\ cc_result = NoneObject
    /\ IdleNotCc

\* cost_calculator.calculate_cost(plan): the plan is annotated in place and
\* the pair (cost, cardinality) returned, or the call raises
AnnotatePlan ==
    /\ cc_pc = "plan"
    /\ LET c == calculate_cost(cc_doc.query, cc_doc.stats, <<>>, <<>>)
       IN  /\ cc_doc' = [cc_doc EXCEPT !.query = c.node]
           /\ cc_cost' = IF c.raised THEN NoneObject ELSE [cost |-> c.cost, cardinality |-> c.size]
           /\ cc_pc' = IF c.raised THEN "raised" ELSE "annotated"
    /\ UNCHANGED <<cc_i, cc_exprs, cc_expr_occ, cc_result, notCc>>

Next_an == AnnotatePlan

SpecAnnotate == Init_an /\ [][Next_an]_vars

\* --- properties of the annotated plan ---

\* the nodes of a plan
RECURSIVE PlanNodes(_)
PlanNodes(node) ==
    {node} \cup UNION { PlanNodes(node[f]) : f \in DOMAIN node \cap {"left", "right", "input", "query"} }

UnmappedSelects(plan) ==
    { n \in PlanNodes(plan) : n.type = "select" /\ n.condition.type \notin MappedTypes }

Projects(plan) == { n \in PlanNodes(plan) : n.type = "project" }

\* C22: in the annotated plan every project has the cost and the
\* cardinality stored on its input node, whatever the type of the input.
C22_ProjectPassesThrough ==
    cc_pc = "annotated" =>
        \A n \in Projects(cc_doc.query) :
            /\ HasField(n.input, "cost") /\ n.cost = n.input.cost
            /\ HasField(n.input, "cardinality") /\ n.cardinality = n.input.cardinality

\* over a base relation or a join the project does carry both fields of its
\* input, and over a select the cardinality
C22_PassesThroughBaseAndJoin ==
    cc_pc = "annotated" =>
        \A n \in Projects(cc_doc.query) :
            /\ n.input.type \in {"base_relation", "join"} =>
                  n.cost = n.input.cost /\ n.cardinality = n.input.cardinality
            /\ n.input.type = "select" => n.cardinality = n.input.cardinality

\* ---------------------------------------------------------------------------
\* Multiplicity of the orders generate_valid_join_orders returns
\* ---------------------------------------------------------------------------

\* how often an order stands in valid_orders
TimesReturned(order) == Cardinality({ i \in DOMAIN jo_valid : jo_valid[i] = order })

\* every two of the three tables are adjacent: a table can be joined to a
\* prefix of two tables through either of them
IsTriangleABC ==
    /\ Range(jo_tables) = {"A", "B", "C"}
    /\ \A t, u \in OrderTables : t # u => Adjacent(t, u)

\* C23: the same complete ordering can be returned more than once: where a
\* table is joinable to the current order through more than one of its
\* tables, the list returned holds an ordering twice.
C23_DuplicateOrders ==
    (jo_pc = "done" /\ IsTriangleABC) =>
        \E i, j \in DOMAIN jo_valid : i # j /\ jo_valid[i] = jo_valid[j]

\* C23 as the code has it: every permutation of the tables in which each
\* table after the first is adjacent to an earlier one is returned exactly
\* once, and nothing else is returned.
C23_EachOrderOnce ==
    (jo_pc = "done" /\ Len(jo_tables) >= 2) =>
        /\ \A p \in ListsOf(Range(jo_tables)) : Connected(p) => TimesReturned(p) = 1
        /\ \A i, j \in DOMAIN jo_valid : i # j => jo_valid[i] # jo_valid[j]

\* the triangle A-B-C has been enumerated: six orders
C23_Witness ==
    /\ jo_pc = "done"
    /\ IsTriangleABC
    /\ Len(jo_valid) = 6

\* ---------------------------------------------------------------------------
\* Cost accumulation along one join order (optimize_join_query)
\* ---------------------------------------------------------------------------

\* the cost of the join of step k alone, for one strategy, before any discount
StepCost(stats, join_conditions, method, join_order, k, strategy) ==
    LET prefix == SubSeq(join_order, 1, k - 1)
        found == find_join_attrs(prefix, join_order[k], join_conditions)
        selectivity == estimate_selectivity(stats, found.join_table, join_order[k],
                                            found.join_attrs, method)
    IN  IF k = 2
        THEN estimate_join_cost(stats, prefix[1], join_order[k], strategy, selectivity)
        ELSE estimate_join_cost_with_intermediate(stats,
                 get_intermediate_result_size(stats, prefix, join_conditions, method),
                 join_order[k], found.join_attrs, strategy, selectivity)

\* what the claim says of one order: the cost of each longer prefix is the
\* cost of the prefix before it plus the discounted cost of its own join
AccumulatesByStep(stats, join_conditions, method, join_order) ==
    \A k \in 2..Len(join_order) :
        LET at == PrefixPlan(stats, join_conditions, method, join_order, k)
            before == PrefixPlan(stats, join_conditions, method, join_order, k - 1)
        IN  (~at.raised /\ at.has) =>
                at.cost = DAdd(before.cost,
                               Discounted(StepCost(stats, join_conditions, method, join_order,
                                                   k, at.strategies[k - 1]),
                                          at.strategies[k - 1],
                                          method_to_strategy_preference(method)))

OrdersCosted == jc_pc = "done" /\ jo_valid # <<>> /\ Len(jc_plans) = Len(selectivity_methods)

\* C24: for every valid order and every position after the first, the cost
\* stored for the longer prefix is the cost stored for the prefix before it
\* plus the discounted cost of the chosen strategy for that join: the scan of
\* the first table is part of the final cost and a discount touches only the
\* join of its own step.
C24_CostAccumulatesByStep ==
    OrdersCosted =>
        \A n \in DOMAIN jo_valid : \A m \in DOMAIN selectivity_methods :
            AccumulatesByStep(jc_in.stats, jc_in.join_conditions, selectivity_methods[m],
                              jo_valid[n])

\* --- a failed predicate-pushdown request and the session state ---

\* USER_STUFF.get(key), told apart from a key that is not set
Stored(user, key) ==
    IF key \in DOMAIN user THEN [set |-> TRUE, value |-> user[key]]
    ELSE [set |-> FALSE, value |-> NoneObject]

PredPushKeys == {"original_plan_json", "pred_plan_json", "pred_cost"}

PredPushFailed == Answered("/optimize/pred_push/") /\ ~Succeeded

\* C28: a /optimize/pred_push/ request that answers success=false leaves
\* original_plan_json, pred_plan_json and pred_cost as they were before the
\* request, also when the failure happens while the cost is computed.
C28_FailureLeavesState ==
    PredPushFailed =>
        \A key \in PredPushKeys : Stored(app_user, key) = Stored(app_before, key)

\* --- the plan the common-subexpression stage optimizes ---

\* The session holds the pushed-down plan of the most recent successful
\* request (no later request failed after it had stored its own).
HoldsLatestPushdown ==
    /\ app_pushed # NoneObject
    /\ "pred_plan_json" \in DOMAIN app_user
    /\ app_user["pred_plan_json"] = optimize_query_plan(app_pushed).optimized_plan_json

\* C27: the plan that /optimize/common_subexpr/ optimizes derives from the
\* plan of the most recent successful /optimize/pred_push/; a join_plan_json
\* stored for an earlier query is not used once a later pred_push has started
\* a new query.
C27_CseInputOfLatestQuery ==
    (Answered("/optimize/common_subexpr/") /\ Succeeded /\ HoldsLatestPushdown) =>
        app_resp.body.optimized_plan_json.query = app_pushed.query

\* ---------------------------------------------------------------------------
\* Web orchestrator, concurrent requests: app.run(debug=True) (line 226)
\* serves every request in a thread of its own, and the handlers share the
\* module-level USER_STUFF. The two routes modelled are /optimize/pred_push/
\* and /optimize/common_subexpr/.
\* ---------------------------------------------------------------------------

Threads == {"t1", "t2"}

ThreadRoutes == {"/optimize/pred_push/", "/optimize/common_subexpr/"}

\* handlers that take turns: none runs while another is between the writes
\* of optimize_predpush
SerializedHandlers(t) == \A o \in Threads \ {t} : th_pc[o] # "cost"

\* the handlers acquire nothing before they touch USER_STUFF: a handler runs
\* whatever the other threads are doing
MayRun(t) == TRUE

ThServing(t, route, pc) ==
    th_pc[t] = pc /\ th_req[t] # NoneObject /\ th_req[t].route = route

ThRespond(t, resp) ==
    /\ th_resp' = [th_resp EXCEPT ![t] = resp]
    /\ th_pc' = [th_pc EXCEPT ![t] = "responded"]

Init_th ==
    /\ th_pc = [t \in Threads |-> "ready"]
    /\ th_user = [k \in {"scale"} |-> Num(1)]
    /\ th_req = [t \in Threads |-> NoneObject]
    /\ th_before = [t \in Threads |-> NoneObject]
    /\ th_resp = [t \in Threads |-> NoneObject]
    /\ IdleNotTh

\* a request arrives and is given to a thread
ThRequest(t) ==
    /\ th_pc[t] = "ready"
    /\ \E route \in ThreadRoutes : \E plan \in RequestPlans :
          th_req' = [th_req EXCEPT ![t] = [route |-> route, relational_algebra |-> plan]]
    /\ th_pc' = [th_pc EXCEPT ![t] = "handle"]
    /\ UNCHANGED <<th_user, th_before, th_resp, notTh>>

\* optimize_predpush, lines 83-97, in thread t
ThPredPushOptimize(t) ==
    /\ ThServing(t, "/optimize/pred_push/", "handle")
    /\ MayRun(t)
    /\ th_before' = [th_before EXCEPT ![t] = th_user]
    /\ LET relational_algebra == th_req[t].relational_algebra
           result == optimize_query_plan(relational_algebra)
       IN  IF result = NoneObject
           THEN /\ ThRespond(t, Response(th_req[t].route,
                                  Failure("Optimization failed: ",
                                          "'NoneType' object is not subscriptable")))
                /\ th_user' = th_user
           ELSE /\ th_user' = DictSet(DictSet(th_user, "original_plan_json", relational_algebra),
                                      "pred_plan_json", result.optimized_plan_json)
                /\ th_pc' = [th_pc EXCEPT ![t] = "cost"]
                /\ th_resp' = th_resp
    /\ UNCHANGED <<th_req, notTh>>

\* lines 98-116 in thread t
ThPredPushCost(t) ==
    /\ ThServing(t, "/optimize/pred_push/", "cost")
    /\ \E outcome \in CostOutcomes :
          IF outcome = RaiseOutcome
          THEN /\ ThRespond(t, Response(th_req[t].route,
                                 Failure("Optimization failed: ", "calculate_cost")))
               /\ th_user' = th_user
          ELSE /\ th_user' = DictSet(th_user, "pred_cost", outcome)
               /\ ThRespond(t, Response(th_req[t].route,
                                 [success |-> TRUE,
                                  original_plan_json |-> th_req[t].relational_algebra,
                                  optimized_plan_json |->
                                      optimize_query_plan(th_req[t].relational_algebra).optimized_plan_json,
                                  original_plan_str |-> "original",
                                  optimized_plan_str |-> "optimized"]))
    /\ UNCHANGED <<th_req, th_before, notTh>>

\* optimize_common_subexpr, lines 165-214, in thread t
ThOptimizeCommonSubexpr(t) ==
    /\ ThServing(t, "/optimize/common_subexpr/", "handle")
    /\ MayRun(t)
    /\ th_before' = [th_before EXCEPT ![t] = th_user]
    /\ \E outcome \in CseOutcomes :
          LET done == CommonSubexpr(th_user, outcome)
          IN  /\ th_user' = done.user
              /\ ThRespond(t, Response(th_req[t].route, done.body))
    /\ UNCHANGED <<th_req, notTh>>

\* the response is sent; the thread can serve the next request
ThEndRequest(t) ==
    /\ th_pc[t] = "responded"
    /\ th_pc' = [th_pc EXCEPT ![t] = "ready"]
    /\ th_req' = [th_req EXCEPT ![t] = NoneObject]
    /\ th_before' = [th_before EXCEPT ![t] = NoneObject]
    /\ th_resp' = [th_resp EXCEPT ![t] = NoneObject]
    /\ UNCHANGED <<th_user, notTh>>

Next_th ==
    \E t \in Threads :
        \/ ThRequest(t)
        \/ ThPredPushOptimize(t) \/ ThPredPushCost(t)
        \/ ThOptimizeCommonSubexpr(t)
        \/ ThEndRequest(t)

SpecThreads == Init_th /\ [][Next_th]_vars

\* --- a request between the writes of another ---

\* thread p has stored the plans of its request and not yet their cost
BetweenWrites(p) == ThServing(p, "/optimize/pred_push/", "cost")

NewPredPlan(p) == optimize_query_plan(th_req[p].relational_algebra).optimized_plan_json

\* USER_STUFF with the first two writes of thread p and nothing else since
PartlyWritten(p) ==
    DictSet(DictSet(th_before[p], "original_plan_json", th_req[p].relational_algebra),
            "pred_plan_json", NewPredPlan(p))

\* thread c answered a /optimize/common_subexpr/ request with success, and
\* its handler found USER_STUFF as thread p had partly written it
ObservedPartly(p, c) ==
    /\ p # c
    /\ BetweenWrites(p)
    /\ ThServing(c, "/optimize/common_subexpr/", "responded")
    /\ th_before[c] = PartlyWritten(p)
    /\ th_resp[c].body.success

\* C25: no lock keeps a /optimize/common_subexpr/ handler from running between
\* the two writes of a /optimize/pred_push/ handler, and when it does it
\* answers with the new pred_plan_json together with the pred_cost that an
\* older request stored.
C25_ReadsPartlyWrittenState ==
    \A p \in Threads : \A c \in Threads \ {p} :
        /\ (BetweenWrites(p) /\ ThServing(c, "/optimize/common_subexpr/", "handle"))
              => ENABLED ThOptimizeCommonSubexpr(c)
        /\ ObservedPartly(p, c) =>
              /\ th_resp[c].body.original_plan_json = NewPredPlan(p)
              /\ Truthy(th_before[p]["pred_cost"]) =>
                    th_resp[c].body.original_cost = th_before[p]["pred_cost"]

\* the interleaving: the plan is the one thread p has just stored, the cost
\* is the one of the request before
C25_Witness ==
    \E p \in Threads : \E c \in Threads \ {p} :
        /\ ObservedPartly(p, c)
        /\ "pred_plan_json" \in DOMAIN th_before[p]
        /\ th_before[p]["pred_plan_json"] # NewPredPlan(p)
        /\ th_resp[c].body.original_plan_json = NewPredPlan(p)
        /\ th_resp[c].body.original_cost = th_before[p]["pred_cost"]

\* ---------------------------------------------------------------------------
\* Command line of the common-subexpression optimizer: main of
\* src/subsequence.py
\* ---------------------------------------------------------------------------

\* line 197: --min-size, type=int, default=20
DefaultMinSize == 20

\* the values given on the command line; DefaultMinSize when the flag is absent
MinSizes == {0, DefaultMinSize, 100}

\* the JSON documents on the input
CliInputs == CseTrees(2)

Init_cli ==
    /\ cli_pc = "start"
    /\ cli_min_size = DefaultMinSize
    /\ cli_tree = None
    /\ cli_out = None
    /\ IdleNotCli

\* lines 192-198: args = parser.parse_args()
ParseArgs ==
    /\ cli_pc = "start"
    /\ cli_min_size' \in MinSizes
    /\ cli_pc' = "parsed"
    /\ UNCHANGED <<cli_tree, cli_out, notCli>>

\* lines 201-209: query_tree = json.load(...)
ReadInput ==
    /\ cli_pc = "parsed"
    /\ cli_tree' \in CliInputs
    /\ cli_pc' = "read"
    /\ UNCHANGED <<cli_min_size, cli_out, notCli>>

\* lines 212-213 and 236-242: QueryTreeOptimizer() takes no argument and
\* optimize_and_cleanup only the tree; the result is written
RunOptimizer ==
    /\ cli_pc = "read"
    /\ cli_out' = optimize_and_cleanup(cli_tree)
    /\ cli_pc' = "done"
    /\ UNCHANGED <<cli_min_size, cli_tree, notCli>>

Next_cli == ParseArgs \/ ReadInput \/ RunOptimizer

SpecCli == Init_cli /\ [][Next_cli]_vars

\* --- the minimum size ---

\* the serializations that occur more than once among the significant nodes
\* of the input, with their lengths
RepeatedExprs(tree) ==
    SelectSeq(BuildExprMap(tree, traverse(tree, <<>>), <<>>), IsCommonAnySize)

LongerThan(items, size) == { i \in DOMAIN items : items[i].len > size }

\* C26: a repeated subtree is extracted exactly when its serialized length
\* exceeds the --min-size value.
C26_MinSizeApplied ==
    cli_pc = "done" =>
        Len(cli_out.common_expressions)
            = Cardinality(LongerThan(RepeatedExprs(cli_tree), cli_min_size))

\* the same for the runs that leave --min-size at its default
C26_DefaultSizeApplied ==
    (cli_pc = "done" /\ cli_min_size = DefaultMinSize) =>
        Len(cli_out.common_expressions)
            = Cardinality(LongerThan(RepeatedExprs(cli_tree), DefaultMinSize))

\* ---------------------------------------------------------------------------
\* QueryOptimizer.parse_relational_algebra (src/join_optimization.py 318-427)
\* and the call of generate_valid_join_orders on what it returns (lines
\* 909-919)
\* ---------------------------------------------------------------------------

\* RA-JSON nodes
PrBase(t) == [type |-> "base_relation", tables |-> << [type |-> "table", name |-> t] >>]

PrAliased(t, a) ==
    [type |-> "base_relation", tables |-> << [type |-> "table", name |-> t, alias |-> a] >>]

PrSubquery(a, q) == [type |-> "subquery", alias |-> a, query |-> q]

PrColumn(t, a) == [type |-> "column", table |-> t, attr |-> a]

PrSelect(input) ==
    [type |-> "select",
     condition |-> [type |-> "GT", left |-> PrColumn("", "v"), right |-> PrColumn("", "w")],
     input |-> input]

PrJoin(l, r, c) == [type |-> "join", left |-> l, right |-> r, condition |-> c]

PrEq(lt, rt) == [type |-> "EQ", left |-> PrColumn(lt, "x"), right |-> PrColumn(rt, "x")]

\* parent_alias=None
NoAlias == ""

\* tables, alias_map, join_conditions and join_graph while extract_info runs
NoInfo == [tables |-> {}, alias_map |-> <<>>, conds |-> <<>>, graph |-> <<>>]

\* lines 345-354: one table of a base_relation
ExtractTable(table, parent_alias, st) ==
    LET with_parent == IF parent_alias # NoAlias
                       THEN DictSet(st.alias_map, parent_alias, table.name)
                       ELSE st.alias_map
        with_alias == IF HasField(table, "alias")
                      THEN DictSet(with_parent, table.alias, table.name)
                      ELSE with_parent
    IN  [st EXCEPT !.tables = @ \cup {table.name}, !.alias_map = with_alias]

\* the values threaded through the traversal are bound through one-element
\* sets, which makes each of them a value before it is used
RECURSIVE ExtractTables(_, _, _)
ExtractTables(tables, parent_alias, st) ==
    IF tables = <<>> THEN st
    ELSE CHOOSE done \in { ExtractTables(Tail(tables), parent_alias, next) :
                              next \in {ExtractTable(Head(tables), parent_alias, st)} } : TRUE

\* join_graph[t].add(u) on a defaultdict(set)
AddNeighbour(graph, t, u) ==
    IF t \in DOMAIN graph THEN [graph EXCEPT ![t] = @ \cup {u}] ELSE graph @@ (t :> {u})

\* join_conditions[(t1, t2)] = (a1, a2): the value of a key already there is
\* replaced in place
SetCondition(conds, c) ==
    IF HasCond(conds, c.t1, c.t2)
    THEN [i \in DOMAIN conds |->
            IF conds[i].t1 = c.t1 /\ conds[i].t2 = c.t2 THEN c ELSE conds[i]]
    ELSE Append(conds, c)

\* alias_map.get(table, table)
ResolveAlias(alias_map, table) ==
    IF table \in DOMAIN alias_map THEN alias_map[table] ELSE table

\* lines 367-410: the EQ condition of a join, attribute names without a dot
ExtractCondition(condition, st) ==
    IF condition.type # "EQ" THEN st
    ELSE LET left_real_table == ResolveAlias(st.alias_map, condition.left.table)
             right_real_table == ResolveAlias(st.alias_map, condition.right.table)
         IN  [st EXCEPT
                !.conds = SetCondition(@, Cond(left_real_table, condition.left.attr,
                                               right_real_table, condition.right.attr)),
                !.graph = AddNeighbour(AddNeighbour(@, left_real_table, right_real_table),
                                       right_real_table, left_real_table)]

\* the values of a node that are dicts, in the order of its keys
ChildDicts(node) ==
    IF node.type = "join" THEN <<node.left, node.right, node.condition>>
    ELSE IF node.type = "select" THEN <<node.condition, node.input>>
    ELSE IF node.type \in {"EQ", "GT"} THEN <<node.left, node.right>>
    ELSE <<>>

\* extract_info, lines 339-415. parent_alias reaches only the node directly
\* under a subquery; a join is not left with a return, so its children are
\* visited again by the loop of lines 413-415.
RECURSIVE extract_info(_, _, _)
RECURSIVE ExtractEach(_, _)
extract_info(node, parent_alias, st) ==
    IF node.type = "base_relation" THEN ExtractTables(node.tables, parent_alias, st)
    ELSE IF node.type = "subquery" THEN extract_info(node.query, node.alias, st)
    ELSE IF node.type = "join"
    THEN CHOOSE done \in
            { ExtractEach(ChildDicts(node), with_condition) :
                with_condition \in
                  { ExtractCondition(node.condition, with_right) :
                      with_right \in
                        { extract_info(node.right, NoAlias, with_left) :
                            with_left \in {extract_info(node.left, NoAlias, st)} } } } : TRUE
    ELSE ExtractEach(ChildDicts(node), st)

ExtractEach(nodes, st) ==
    IF nodes = <<>> THEN st
    ELSE CHOOSE done \in { ExtractEach(Tail(nodes), next) :
                              next \in {extract_info(Head(nodes), NoAlias, st)} } : TRUE

\* ---- the plans ----

PrTables == <<"A", "B", "C">>

\* the relation at position n of a plan, with the name join conditions use
\* for it: a table, a table with an alias, a subquery directly over a table,
\* and a subquery over a selection
PrLeaves(n) ==
    LET t == PrTables[n]
        alias == <<"a1", "a2", "a3">>[n]
        tmp == <<"tmp1", "tmp2", "tmp3">>[n]
    IN  { [node |-> PrBase(t), name |-> t],
          [node |-> PrAliased(t, alias), name |-> alias],
          [node |-> PrSubquery(tmp, PrBase(t)), name |-> tmp],
          [node |-> PrSubquery(tmp, PrSelect(PrBase(t))), name |-> tmp] }

\* one relation, and left-deep joins of two or three relations on the column
\* x, each joined to the relation before it
PrPlans ==
    { l.node : l \in PrLeaves(1) }
    \cup
    { PrJoin(l.node, r.node, PrEq(l.name, r.name)) : l \in PrLeaves(1), r \in PrLeaves(2) }
    \cup
    { PrJoin(PrJoin(l.node, m.node, PrEq(l.name, m.name)), r.node, PrEq(m.name, r.name)) :
        l \in PrLeaves(1), m \in PrLeaves(2), r \in PrLeaves(3) }

Init_pr ==
    /\ pr_pc = "start"
    /\ pr_plan \in PrPlans
    /\ pr_tables = {}
    /\ pr_alias = <<>>
    /\ TeIdle
    /\ JoIdle
    /\ IdleNotPr

\* lines 329-420: extract_info(json_data), then add_transitive_edges is called
ExtractInfo ==
    /\ pr_pc = "start"
    /\ LET st == extract_info(pr_plan, NoAlias, NoInfo)
       IN  /\ pr_tables' = st.tables
           /\ pr_alias' = st.alias_map
           /\ te_input' = st.conds
           /\ te_conds' = st.conds
           /\ te_graph' = st.graph
    /\ te_pc' = "start"
    /\ te_eq' = NoClasses
    /\ te_loop' = [changed |-> TRUE, keys |-> <<>>, key |-> None, eq_class |-> 0, others |-> {}]
    /\ te_classes' = {}
    /\ pr_pc' = "closure"
    /\ UNCHANGED <<pr_plan, joVars, notPr>>

PrRunClosure == pr_pc = "closure" /\ Next_te

\* line 427 and lines 910-919: list(tables) in whichever order, handed to
\* generate_valid_join_orders with the join graph
PrCallOrders ==
    /\ pr_pc = "closure"
    /\ te_pc = "done"
    /\ jo_pc' = "start"
    /\ jo_tables' \in ListsOf(pr_tables)
    /\ jo_graph' = te_graph
    /\ jo_i' = 0
    /\ jo_queue' = <<>>
    /\ jo_valid' = <<>>
    /\ pr_pc' = "orders"
    /\ UNCHANGED <<pr_plan, pr_tables, pr_alias, teVars, notPr>>

PrRunOrders == pr_pc = "orders" /\ Next_jo

\* generate_valid_join_orders has returned
PrDone ==
    /\ pr_pc = "orders"
    /\ jo_pc = "done"
    /\ pr_pc' = "done"
    /\ UNCHANGED <<pr_plan, pr_tables, pr_alias, teVars, joVars, notPr>>

Next_pr == ExtractInfo \/ PrRunClosure \/ PrCallOrders \/ PrRunOrders \/ PrDone

SpecParse == Init_pr /\ [][Next_pr]_vars

\* --- the orders and the extracted tables ---

\* a join condition between the table at position k and an earlier table
ConditionToEarlier(order, k) ==
    \E j \in 1..(k - 1) :
        HasCond(te_conds, order[j], order[k]) \/ HasCond(te_conds, order[k], order[j])

\* C29: every order generate_valid_join_orders produces from the tables and
\* the join graph of parse_relational_algebra holds every extracted table
\* exactly once and no other name, also when a join condition names a
\* subquery alias that alias_map does not resolve; for each position after the
\* first there is a join condition to an earlier table.
C29_OrdersPermuteTables ==
    pr_pc = "done" =>
        \A n \in DOMAIN jo_valid :
            /\ Range(jo_valid[n]) = pr_tables
            /\ Len(jo_valid[n]) = Cardinality(pr_tables)
            /\ \A k \in 2..Len(jo_valid[n]) : ConditionToEarlier(jo_valid[n], k)

\* the same for the plans whose conditions name tables and resolved aliases only
AllNamesResolved ==
    \A i \in DOMAIN te_input : {te_input[i].t1, te_input[i].t2} \subseteq pr_tables

C29_ResolvedOrdersPermuteTables ==
    (pr_pc = "done" /\ AllNamesResolved) =>
        \A n \in DOMAIN jo_valid :
            /\ Range(jo_valid[n]) = pr_tables
            /\ Len(jo_valid[n]) = Cardinality(pr_tables)
            /\ \A k \in 2..Len(jo_valid[n]) : ConditionToEarlier(jo_valid[n], k)

\* ---------------------------------------------------------------------------
\* Heuristic plan generators of src/join_order_diff_estimator.py:
\* generate_left_deep_plans and generate_bushy_plans_with_heuristics, with
\* the "fixed" estimator
\* ---------------------------------------------------------------------------

\* JoinTreeNode(table_name, rows, 0) and JoinTreeNode(set of tables, rows, 0)
TableSetNode(tables, rows) ==
    [tables |-> tables, children |-> <<>>, estimated_rows |-> rows,
     cost |-> Num(0), join_method |-> "None"]

\* JoinTreeNode((left, right), rows, cost, join_method)
JoinTree(left, right, rows, cost, join_method) ==
    [tables |-> left.tables \cup right.tables, children |-> <<left, right>>,
     estimated_rows |-> rows, cost |-> cost, join_method |-> join_method]

\* JoinCondition.connects_table_sets; a condition is <<left_table, right_table>>
connects_table_sets(cond, set1, set2) ==
    \/ cond[1] \in set1 /\ cond[2] \in set2
    \/ cond[1] \in set2 /\ cond[2] \in set1

\* JoinQuery.find_connecting_join_conditions
find_connecting_join_conditions(query, set1, set2) ==
    SelectSeq(query.join_conditions, LAMBDA cond : connects_table_sets(cond, set1, set2))

\* fixed_selectivity_estimator on two JoinTreeNodes: the estimated rows
fixed_selectivity_estimator(query, left, right) ==
    IF find_connecting_join_conditions(query, left.tables, right.tables) = <<>>
    THEN left.estimated_rows * right.estimated_rows
    ELSE (left.estimated_rows * right.estimated_rows) \div 10

SmallTableRows == 1000

MinOf(a, b) == IF a < b THEN a ELSE b

MaxOf(a, b) == IF a < b THEN b ELSE a

select_join_method(left_rows, right_rows, join_conditions) ==
    IF left_rows < SmallTableRows /\ right_rows < SmallTableRows THEN "nested_loop"
    ELSE IF Len(join_conditions) > 0
    THEN IF MinOf(left_rows, right_rows) * 10 < MaxOf(left_rows, right_rows)
         THEN "hash_join" ELSE "merge_join"
    ELSE "nested_loop"

\* JOIN_METHODS[join_method].estimate_cost. MergeJoin takes logarithms; the
\* row counts of the queries below stay under SmallTableRows, where
\* select_join_method answers nested_loop.
estimate_cost(join_method, outer_rows, inner_rows) ==
    CASE join_method = "nested_loop" ->
            FAdd(Frac(outer_rows * inner_rows * 2, 10),
                 FAdd(Num(outer_rows), Frac(outer_rows * inner_rows, 100)))
      [] join_method = "hash_join" ->
            FAdd(Frac(MinOf(outer_rows, inner_rows) * 12, 10),
                 Frac(MaxOf(outer_rows, inner_rows), 10))

\* lines 462-486: the plan that joins next_node to current_plan
JoinTable(query, current_plan, next_node) ==
    LET output_rows == fixed_selectivity_estimator(query, current_plan, next_node)
        joining_conditions ==
            find_connecting_join_conditions(query, current_plan.tables, next_node.tables)
        join_method == select_join_method(current_plan.estimated_rows,
                                          next_node.estimated_rows, joining_conditions)
        join_cost == estimate_cost(join_method, current_plan.estimated_rows,
                                   next_node.estimated_rows)
    IN  JoinTree(current_plan, next_node, output_rows,
                 FAdd(current_plan.cost, join_cost), join_method)

\* lines 453-497: the plans the while loop can end with. The first table of
\* remaining_tables with the least total cost is taken; the set gives its
\* tables in whichever order.
RECURSIVE GreedyPlans(_, _, _)
GreedyPlans(query, current_plan, remaining_tables) ==
    IF remaining_tables = {} THEN {current_plan}
    ELSE LET Candidate(t) ==
                 JoinTable(query, current_plan, TableSetNode({t}, query.row_count[t]))
             best == { t \in remaining_tables :
                         \A u \in remaining_tables :
                             ~FLess(Candidate(u).cost, Candidate(t).cost) }
         IN  UNION { GreedyPlans(query, Candidate(t), remaining_tables \ {t}) : t \in best }

\* plans.sort(key=lambda p: p.cost): stable
RECURSIVE SortByCost(_)
SortByCost(plans) ==
    IF plans = <<>> THEN <<>>
    ELSE LET m == CHOOSE i \in DOMAIN plans :
                     /\ \A j \in DOMAIN plans : ~FLess(plans[j].cost, plans[i].cost)
                     /\ \A j \in 1..(i - 1) : FLess(plans[i].cost, plans[j].cost)
         IN  <<plans[m]>>
             \o SortByCost(SubSeq(plans, 1, m - 1) \o SubSeq(plans, m + 1, Len(plans)))

\* plans[:n]
FirstPlans(plans, n) == SubSeq(plans, 1, MinOf(n, Len(plans)))

\* max_plans of generate_bushy_plans_with_heuristics, max_plans of its call of
\* generate_left_deep_plans, and max_bushy_size
MaxPlans == 10

MaxBasePlans == 3

MaxBushySize == 3

\* a chain is long enough to be a candidate
MinChain == 3

\* extract_linear_chains, lines 538-557: the candidates (node, chain) in the
\* order they are appended
RECURSIVE extract_linear_chains(_, _)
extract_linear_chains(node, chain) ==
    IF node.children = <<>> THEN <<>>
    ELSE LET left_child == node.children[1]
             right_child == node.children[2]
         IN  IF Cardinality(right_child.tables) = 1
             THEN LET new_chain == Append(chain, CHOOSE t \in right_child.tables : TRUE)
                  IN  extract_linear_chains(left_child, new_chain)
                      \o (IF Len(new_chain) >= MinChain
                          THEN << [node |-> node, chain |-> new_chain] >> ELSE <<>>)
             ELSE extract_linear_chains(left_child, <<>>)
                  \o extract_linear_chains(right_child, <<>>)

RECURSIVE SumRows(_, _)
SumRows(query, tables) ==
    IF tables = {} THEN 0
    ELSE LET t == CHOOSE t \in tables : TRUE
         IN  query.row_count[t] + SumRows(query, tables \ {t})

\* lines 570-603 for one split point: the bushy node, or nothing when no
\* join condition connects the two sides
BushyNode(query, chain, split_point) ==
    LET left_tables == Range(SubSeq(chain, 1, split_point))
        right_tables == Range(SubSeq(chain, split_point + 1, Len(chain)))
        joining_conditions == find_connecting_join_conditions(query, left_tables, right_tables)
    IN  IF joining_conditions = <<>> THEN <<>>
        ELSE LET left_node == TableSetNode(left_tables, SumRows(query, left_tables))
                 right_node == TableSetNode(right_tables, SumRows(query, right_tables))
                 output_rows == fixed_selectivity_estimator(query, left_node, right_node)
                 join_method == select_join_method(left_node.estimated_rows,
                                                   right_node.estimated_rows, joining_conditions)
                 join_cost == estimate_cost(join_method, left_node.estimated_rows,
                                            right_node.estimated_rows)
             IN  << JoinTree(left_node, right_node, output_rows, join_cost, join_method) >>

\* lines 560-603 for one candidate
RECURSIVE BushyNodesFrom(_, _, _)
BushyNodesFrom(query, chain, split_point) ==
    IF split_point >= Len(chain) THEN <<>>
    ELSE BushyNode(query, chain, split_point) \o BushyNodesFrom(query, chain, split_point + 1)

RECURSIVE Bushified(_, _)
Bushified(query, candidates) ==
    IF candidates = <<>> THEN <<>>
    ELSE BushyNodesFrom(query, FirstPlans(Head(candidates).chain, MaxBushySize), 1)
         \o Bushified(query, Tail(candidates))

\* ---- the queries ----

\* the largest number of tables of a generated query
MaxBushyTables == 4

BushyTableNames == <<"T1", "T2", "T3", "T4", "T5", "T6">>

\* row counts small enough for every intermediate result to stay under
\* SmallTableRows
BushyRowProfiles == { <<2, 3, 4, 5, 3, 2>>, <<5, 4, 3, 2, 4, 2>> }

\* the tables reached from the tables of seen along the edges
RECURSIVE ReachedFrom(_, _)
ReachedFrom(seen, edges) ==
    LET more == seen \cup UNION { e \in edges : e \cap seen # {} }
    IN  IF more = seen THEN seen ELSE ReachedFrom(more, edges)

\* a join condition for every edge, in a fixed order of the edges
RECURSIVE ConditionsOf(_, _)
ConditionsOf(names, edges) ==
    IF Len(names) <= 1 THEN <<>>
    ELSE ConditionsOf(SubSeq(names, 1, Len(names) - 1), edges)
         \o SelectSeq([i \in 1..(Len(names) - 1) |-> <<names[i], names[Len(names)]>>],
                      LAMBDA c : {c[1], c[2]} \in edges)

\* the queries over the first n tables whose join graph is connected
BushyQueries(n) ==
    LET names == SubSeq(BushyTableNames, 1, n)
    IN  { [tables |-> names,
           row_count |-> [t \in Range(names) |->
                            rows[CHOOSE i \in DOMAIN names : names[i] = t]],
           join_conditions |-> ConditionsOf(names, edges)] :
            rows \in BushyRowProfiles,
            edges \in { es \in SUBSET EdgesOver(Range(names)) :
                          ReachedFrom({names[1]}, es) = Range(names) } }

Init_bu ==
    /\ bu_pc = "start"
    /\ bu_query \in UNION { BushyQueries(n) : n \in 2..MaxBushyTables }
    /\ bu_i = 1
    /\ bu_plans = <<>>
    /\ bu_all = <<>>
    /\ IdleNotBu

\* generate_left_deep_plans, lines 446-497: the plan from the next start table
LeftDeepFrom ==
    /\ bu_pc = "start"
    /\ bu_i <= Len(bu_query.tables)
    /\ LET start_table == bu_query.tables[bu_i]
       IN  \E plan \in GreedyPlans(bu_query,
                           TableSetNode({start_table}, bu_query.row_count[start_table]),
                           Range(bu_query.tables) \ {start_table}) :
              bu_plans' = Append(bu_plans, plan)
    /\ bu_i' = bu_i + 1
    /\ UNCHANGED <<bu_pc, bu_query, bu_all, notBu>>

\* lines 500-501 and 527-531: the three cheapest left-deep plans are
\* base_plans, and all_plans starts as their copy
TakeBasePlans ==
    /\ bu_pc = "start"
    /\ bu_i > Len(bu_query.tables)
    /\ bu_plans' = FirstPlans(SortByCost(bu_plans), MaxBasePlans)
    /\ bu_all' = bu_plans'
    /\ bu_i' = 1
    /\ bu_pc' = "bushify"
    /\ UNCHANGED <<bu_query, notBu>>

\* lines 534-607: one iteration of the loop over base_plans
BushifyPlan ==
    /\ bu_pc = "bushify"
    /\ bu_i <= Len(bu_plans)
    /\ bu_all' = bu_all \o Bushified(bu_query, extract_linear_chains(bu_plans[bu_i], <<>>))
    /\ bu_i' = bu_i + 1
    /\ UNCHANGED <<bu_pc, bu_query, bu_plans, notBu>>

\* lines 610-611: sort by cost, return the first max_plans
ReturnPlans ==
    /\ bu_pc = "bushify"
    /\ bu_i > Len(bu_plans)
    /\ bu_all' = FirstPlans(SortByCost(bu_all), MaxPlans)
    /\ bu_pc' = "done"
    /\ UNCHANGED <<bu_query, bu_i, bu_plans, notBu>>

Next_bu == LeftDeepFrom \/ TakeBasePlans \/ BushifyPlan \/ ReturnPlans

SpecBushy == Init_bu /\ [][Next_bu]_vars

\* --- the tables a returned plan covers ---

\* C30: every plan generate_bushy_plans_with_heuristics returns covers all
\* tables of the query, for every query with a connected join graph and any
\* number of tables.
C30_PlansCoverAllTables ==
    bu_pc = "done" =>
        \A n \in DOMAIN bu_all : bu_all[n].tables = Range(bu_query.tables)

\* the same for the queries of at most three tables, whose left-deep plans
\* have no chain of three
C30_SmallPlansCoverAllTables ==
    (bu_pc = "done" /\ Len(bu_query.tables) <= MinChain) =>
        \A n \in DOMAIN bu_all : bu_all[n].tables = Range(bu_query.tables)

====
